---- MODULE Spec2Model ----
(***************************************************************************)
(* LightOn: the reversible action / undo / preview subsystem               *)
(* (scripts/actions/executor.js, scripts/actions/implementations.js), the  *)
(* action registry (scripts/patterns/sneaking.js) and the message handler  *)
(* of the content script that drives them (scripts/content.js).            *)
(*                                                                         *)
(* The page is a small static tree of elements.  Each element carries its  *)
(* inline style (one slot per CSS property the implementations read or     *)
(* write), its checked state, its marker attributes and its class list.    *)
(* Inline style slots are independent of each other: the expansion of      *)
(* CSS shorthands is done by the browser, not by this repository.          *)
(***************************************************************************)
EXTENDS Integers, Sequences, FiniteSets, TLC

VARIABLES
    dom,                 \* element -> [style, checked, attrs, actionIdAttr, classList]
    appliedActions,      \* executor.js:14, the Map in insertion order
    previewingActionId,  \* executor.js:17
    nextActionId,        \* the next fresh actionId (executor.js:83)
    reverted,            \* history: live records reverted by a preview, not yet re-applied
    before,              \* history: dom as it was when the last executeAction or
                         \* previewOriginal started (the dom itself after other calls)
    last,                \* history: the last call, its arguments, result and trace
    patterns,            \* the registry's pattern list (PatternRegistry, part_000:127)
    processedElements,   \* detector.js:19
    scanOut,             \* history: what the last call of scan did and returned
    isEnabled,           \* content.js:482
    currentResults,      \* content.js:483
    scanTimeout,         \* content.js:485, the timer debouncedScan holds
    timers,              \* the timers that are set and have not fired yet
    elementIdCounter,    \* content.js:486
    lightonId,           \* node -> its data-lighton-id attribute
    nextTimer,           \* the handle the next setTimeout returns
    lastScan,            \* history: what started the last performScan, and
                         \* whether a preview was active then
    calc,                \* a call of a pure function: its name, input and output
    now,                 \* Date.now(), in seconds
    requests,            \* rateLimiter.requests (background.js:27)
    secessionCache,      \* background.js:15, the Map in insertion order
    lookups,             \* the calls of fetchSecessionInfo that have not returned
    issued,              \* history: the times at which fetch was called
    started              \* history: the number of lookups started

executorVars ==
    <<dom, appliedActions, previewingActionId, nextActionId, reverted, before, last>>

detectorVars == <<patterns, processedElements, scanOut>>

contentVars ==
    <<isEnabled, currentResults, scanTimeout, timers, elementIdCounter,
      lightonId, nextTimer, lastScan>>

backgroundVars == <<now, requests, secessionCache, lookups, issued, started>>

vars == <<executorVars, detectorVars, contentVars, calc, backgroundVars>>

-----------------------------------------------------------------------------
(* Bounds                                                                  *)

\* Number of actionIds the executor may issue in one behaviour.
MaxActions == 2

\* Number of patterns registered in one behaviour.
MaxPatterns == 3

\* Length of the list of raw matches handed to deduplicateResults.
MaxRaw == 3

\* Number of timers the content script sets in one behaviour.
MaxTimers == 3

\* Number of siblings a child is compared with.
MaxSiblings == 2

\* The children of a container.
MaxChildren == 3

\* The clickable descendants of a container.
MaxControls == 3

\* Number of lookups started for one site.
MaxLookups == 12

\* Number of sites looked up one after the other.
MaxDomains == 102

-----------------------------------------------------------------------------
(* The page                                                                *)

\* body > ignore > inner ; body > plans > (card1 > badge, card2) ;
\* body > label > cb.  `ignore` carries data-lighton-ignore, `inner` is a
\* button.
\* Elems are the elements the executor is handed.
Elems == {"cb", "card1", "card2", "badge"}

\* document.body.querySelectorAll('*'): every element, in document order
\* (detector.js:1048).
Document ==
    <<"ignore", "inner", "plans", "card1", "badge", "card2", "label", "cb">>

Nodes == {Document[i] : i \in 1..Len(Document)}

\* `null`: the element argument is missing (content.js:960 finds no node).
NoElem == "null"

\* previewingActionId = null (executor.js:17); no data-lighton-action-id attribute.
NoId == "none"

parentElement(e) ==
    CASE e = "cb" -> "label"
      [] e = "card1" -> "plans"
      [] e = "card2" -> "plans"
      [] e = "badge" -> "card1"
      [] e = "inner" -> "ignore"
      [] OTHER -> "body"

\* parent.children, in document order
children(p) ==
    CASE p = "plans" -> <<"card1", "card2">>
      [] p = "label" -> <<"cb">>
      [] p = "card1" -> <<"badge">>
      [] p = "ignore" -> <<"inner">>
      [] p = "body" -> <<"ignore", "plans", "label">>
      [] OTHER -> <<>>

tagName(e) == IF e = "cb" THEN "INPUT" ELSE "DIV"

inputType(e) == IF e = "cb" THEN "checkbox" ELSE ""

\* Elements below e whose class matches the badge selectors of neutralize
\* (implementations.js:117) and of equalize (implementations.js:213-217):
\* the page's badge carries class "badge", which both lists name.
BadgeDescendants(e) == IF e = "card1" THEN <<"badge">> ELSE <<>>

\* All element descendants of e, in document order.
Descendants(e) == IF e = "card1" THEN <<"badge">> ELSE <<>>

Ancestors(e) == IF e = "badge" THEN {"card1"} ELSE {}

\* Inline style slots (strings; "" is unset) and the numeric font size
\* (sixteenths of a pixel; 0 is unset).
StringProps ==
    {"transform", "boxShadow", "border", "borderWidth", "borderColor",
     "borderRadius", "backgroundColor", "background", "padding", "width",
     "minWidth", "maxWidth", "flex", "scale", "zIndex", "position",
     "color", "fontWeight", "display", "visibility"}

EmptyStyle == [p \in StringProps \cup {"fontSize"} |->
                 IF p = "fontSize" THEN 0 ELSE ""]

\* n pixels, in the unit font sizes are kept in.
Px(n) == n * 16

\* What the page's style sheet gives an element where its inline style is
\* unset (the value window.getComputedStyle reports then).
SheetStyle(e) ==
    [p \in StringProps \cup {"fontSize"} |->
        CASE p = "fontSize" -> IF e = "badge" THEN Px(8) ELSE Px(10)
          [] p = "border" -> IF e = "card1" THEN "3px solid gold" ELSE "1px solid gray"
          [] p = "borderWidth" -> IF e = "card1" THEN "3px" ELSE "1px"
          [] p = "borderColor" -> IF e = "card1" THEN "gold" ELSE "gray"
          [] p = "borderRadius" -> "4px"
          [] p = "boxShadow" -> "none"
          [] p = "backgroundColor" -> IF e = "card1" THEN "rgb(255, 215, 0)" ELSE "rgba(0, 0, 0, 0)"
          [] p = "background" -> IF e = "card1" THEN "rgb(255, 215, 0)" ELSE "rgba(0, 0, 0, 0)"
          [] p = "padding" -> IF e = "card1" THEN "24px" ELSE "16px"
          [] p = "flex" -> "0 1 auto"
          [] p = "display" -> "block"
          [] p = "visibility" -> "visible"
          [] OTHER -> "auto"]

\* window.getComputedStyle(e)[p]
getComputedStyle(d, e, p) ==
    IF d[e].style[p] = EmptyStyle[p] THEN SheetStyle(e)[p] ELSE d[e].style[p]

\* An element is not rendered when it or an ancestor computes display: none.
NotRendered(d, e) ==
    \E a \in {e} \cup Ancestors(e) : getComputedStyle(d, a, "display") = "none"

\* Laid-out box of a rendered element, in pixels.
LayoutBox(e) ==
    CASE e = "badge" -> [width |-> 60, height |-> 20]
      [] e = "cb" -> [width |-> 16, height |-> 16]
      [] OTHER -> [width |-> 300, height |-> 400]

\* e.getBoundingClientRect(): an element that is not rendered has an empty box.
getBoundingClientRect(d, e) ==
    IF NotRendered(d, e) THEN [width |-> 0, height |-> 0] ELSE LayoutBox(e)

\* Object.assign(e.style, assigns)
AssignStyle(d, e, assigns) ==
    [d EXCEPT ![e].style =
        [p \in DOMAIN @ |-> IF p \in DOMAIN assigns THEN assigns[p] ELSE @[p]]]

setAttribute(d, e, name) == [d EXCEPT ![e].attrs = @ \cup {name}]

removeAttribute(d, e, name) == [d EXCEPT ![e].attrs = @ \ {name}]

\* The result `null` of an implementation or of executeAction.
Null == [type |-> "null"]

-----------------------------------------------------------------------------
(* implementations.js: each implementation maps (dom, element) to the new  *)
(* dom and its result; the result's `saved` field holds the variables its  *)
(* restore closure captured.                                               *)

Capture(d, e, props) == [p \in props |-> d[e].style[p]]

\* Sets style.display = 'none' on each element of seq, in order.
RECURSIVE HideEach(_, _)
HideEach(d, seq) ==
    IF seq = <<>> THEN d
    ELSE HideEach(AssignStyle(d, Head(seq), [display |-> "none"]), Tail(seq))

uncheckCheckbox(d, element) ==
    IF tagName(element) = "INPUT" /\ inputType(element) = "checkbox"
    THEN [dom |-> [d EXCEPT ![element].checked = FALSE],
          result |-> [type |-> "uncheck", element |-> element,
                      saved |-> [originalState |-> d[element].checked]]]
    ELSE [dom |-> d, result |-> Null]

NeutralizeCaptured ==
    {"transform", "boxShadow", "border", "borderWidth", "borderColor",
     "backgroundColor", "scale", "zIndex"}

\* The element siblings of element, in document order (implementations.js:102-104, 151-153)
Siblings(element) ==
    SelectSeq(children(parentElement(element)), LAMBDA el : el # element)

\* implementations.js:97-114, on the dom d
NeutralizeStyles(d, element) ==
    IF Len(Siblings(element)) > 0
    THEN AssignStyle(d, element,
            [transform |-> "none", boxShadow |-> "none", scale |-> "1",
             border |-> getComputedStyle(d, Siblings(element)[1], "border"),
             borderWidth |-> getComputedStyle(d, Siblings(element)[1], "borderWidth"),
             borderColor |-> getComputedStyle(d, Siblings(element)[1], "borderColor")])
    ELSE AssignStyle(d, element,
            [transform |-> "none", boxShadow |-> "none", scale |-> "1",
             border |-> "1px solid #ddd"])

\* implementations.js:117-137, on the dom d2 the style writes left; d is the
\* dom the call started from.
NeutralizeBadges(d, d2, element) ==
    [dom |-> setAttribute(HideEach(d2, BadgeDescendants(element)), element,
                          "data-lighton-neutralized"),
     result |-> [type |-> "neutralize", element |-> element,
                 saved |-> [originalStyles |-> Capture(d, element, NeutralizeCaptured),
                            badges |-> BadgeDescendants(element),
                            badgeVisibility |->
                                [i \in 1..Len(BadgeDescendants(element)) |->
                                    d2[BadgeDescendants(element)[i]].style.display]]]]

neutralizeHierarchy(d, element) ==
    NeutralizeBadges(d, NeutralizeStyles(d, element), element)

EqualizeCaptured ==
    {"transform", "boxShadow", "border", "borderWidth", "borderColor",
     "borderRadius", "backgroundColor", "background", "padding", "width",
     "minWidth", "maxWidth", "flex", "scale", "zIndex", "position"}

\* The second hiding pass of equalize (implementations.js:229-242): walks the
\* descendants whose inline style sets position: absolute and hides the ones
\* whose box is small; `acc` collects absoluteOriginalStyles.
RECURSIVE HideAbsolute(_, _, _, _)
HideAbsolute(d, element, seq, acc) ==
    IF seq = <<>> THEN [dom |-> d, absoluteOriginalStyles |-> acc]
    ELSE IF 2 * getBoundingClientRect(d, Head(seq)).width
               < getBoundingClientRect(d, element).width
            /\ getBoundingClientRect(d, Head(seq)).height < 50
    THEN HideAbsolute(AssignStyle(d, Head(seq), [display |-> "none"]),
                      element, Tail(seq),
                      Append(acc, [element |-> Head(seq),
                                   display |-> d[Head(seq)].style.display]))
    ELSE HideAbsolute(d, element, Tail(seq), acc)

\* The style writes of equalize from the reference sibling's computed style
\* (implementations.js:184-210).
EqualizeStyles(d, element, ref) ==
    AssignStyle(d, element,
        [transform |-> "none",
         boxShadow |-> getComputedStyle(d, ref, "boxShadow"),
         border |-> getComputedStyle(d, ref, "border"),
         borderWidth |-> getComputedStyle(d, ref, "borderWidth"),
         borderColor |-> getComputedStyle(d, ref, "borderColor"),
         borderRadius |-> getComputedStyle(d, ref, "borderRadius"),
         scale |-> "1",
         zIndex |-> "auto",
         backgroundColor |->
             IF getComputedStyle(d, ref, "backgroundColor") # ""
                /\ getComputedStyle(d, ref, "backgroundColor") # "rgba(0, 0, 0, 0)"
             THEN getComputedStyle(d, ref, "backgroundColor") ELSE "#fff",
         background |->
             IF getComputedStyle(d, ref, "backgroundColor") # ""
                /\ getComputedStyle(d, ref, "backgroundColor") # "rgba(0, 0, 0, 0)"
             THEN getComputedStyle(d, ref, "background") ELSE "none",
         padding |-> getComputedStyle(d, ref, "padding"),
         flex |-> IF getComputedStyle(d, ref, "flex") # ""
                  THEN getComputedStyle(d, ref, "flex") ELSE "1"])

\* badgeOriginalStyles, captured before the first hiding pass
\* (implementations.js:218-224).
BadgeOriginalStyles(d, element) ==
    [i \in 1..Len(BadgeDescendants(element)) |->
        [element |-> BadgeDescendants(element)[i],
         display |-> d[BadgeDescendants(element)[i]].style.display,
         visibility |-> d[BadgeDescendants(element)[i]].style.visibility]]

\* querySelectorAll('[style*="position: absolute"], ...') below element
AbsoluteChildren(d, element) ==
    SelectSeq(Descendants(element), LAMBDA c : d[c].style.position = "absolute")

\* implementations.js:245-246
EqualizeMark(d, element) ==
    [setAttribute(d, element, "data-lighton-equalized")
        EXCEPT ![element].classList = @ \cup {"lighton-equalized"}]

\* The result of equalize: d is the dom the call started from, d1 the dom
\* the style writes left, pass2 the outcome of the second hiding pass.
EqualizeResult(d, d1, pass2, element) ==
    [dom |-> EqualizeMark(pass2.dom, element),
     result |->
        [type |-> "equalize", element |-> element,
         saved |-> [originalStyles |-> Capture(d, element, EqualizeCaptured),
                    badgeOriginalStyles |-> BadgeOriginalStyles(d1, element),
                    absoluteOriginalStyles |-> pass2.absoluteOriginalStyles]]]

\* Both hiding passes of equalize; d2 is the dom the first pass left.
EqualizeHide(d, d1, d2, element) ==
    EqualizeResult(d, d1,
        HideAbsolute(d2, element, AbsoluteChildren(d2, element), <<>>),
        element)

\* implementations.js:160-274, with at least one sibling
EqualizeWithSiblings(d, d1, element) ==
    EqualizeHide(d, d1, HideEach(d1, BadgeDescendants(element)), element)

equalizeVisualHierarchy(d, element) ==
    IF Len(Siblings(element)) = 0
    THEN neutralizeHierarchy(d, element)
    ELSE EqualizeWithSiblings(d, EqualizeStyles(d, element, Siblings(element)[1]),
                              element)

\* Math.max(14, parseFloat(getComputedStyle(element).fontSize) * 1.5)
EnlargedSize(d, element) ==
    IF (getComputedStyle(d, element, "fontSize") * 3) \div 2 > Px(14)
    THEN (getComputedStyle(d, element, "fontSize") * 3) \div 2
    ELSE Px(14)

EmphasizeCaptured ==
    {"fontSize", "color", "fontWeight", "backgroundColor", "padding", "border"}

emphasizeHidden(d, element) ==
    [dom |-> setAttribute(
                AssignStyle(d, element,
                    [fontSize |-> EnlargedSize(d, element),
                     color |-> "#000",
                     fontWeight |-> "600",
                     backgroundColor |-> "#FFF9C4",
                     padding |-> "8px",
                     border |-> "2px solid #FFC107"]),
                element, "data-lighton-emphasized"),
     result |-> [type |-> "emphasize", element |-> element,
                 saved |-> [originalStyles |->
                               Capture(d, element, EmphasizeCaptured)]]]

enlargeText(d, element) ==
    [dom |-> setAttribute(
                AssignStyle(d, element, [fontSize |-> EnlargedSize(d, element)]),
                element, "data-lighton-enlarged"),
     result |-> [type |-> "enlarge", element |-> element,
                 saved |-> [originalFontSize |-> d[element].style.fontSize]]]

hideElement(d, element) ==
    [dom |-> setAttribute(AssignStyle(d, element, [display |-> "none"]),
                          element, "data-lighton-hidden"),
     result |-> [type |-> "hide", element |-> element,
                 saved |-> [originalDisplay |-> d[element].style.display]]]

\* badge.style.display = badgeVisibility[i], for each i in order
RECURSIVE RestoreBadgeDisplay(_, _, _, _)
RestoreBadgeDisplay(d, badges, badgeVisibility, i) ==
    IF i > Len(badges) THEN d
    ELSE RestoreBadgeDisplay(
            AssignStyle(d, badges[i], [display |-> badgeVisibility[i]]),
            badges, badgeVisibility, i + 1)

\* forEach over badgeOriginalStyles (implementations.js:264-267)
RECURSIVE RestoreBadgeStyles(_, _)
RestoreBadgeStyles(d, seq) ==
    IF seq = <<>> THEN d
    ELSE RestoreBadgeStyles(
            AssignStyle(d, Head(seq).element,
                        [display |-> Head(seq).display,
                         visibility |-> Head(seq).visibility]),
            Tail(seq))

\* forEach over absoluteOriginalStyles (implementations.js:268-270)
RECURSIVE RestoreAbsolute(_, _)
RestoreAbsolute(d, seq) ==
    IF seq = <<>> THEN d
    ELSE RestoreAbsolute(
            AssignStyle(d, Head(seq).element, [display |-> Head(seq).display]),
            Tail(seq))

\* action.restore(): the closure returned by the implementation that built
\* the record, applied to the current dom.
restore(d, action) ==
    CASE action.type = "uncheck" ->
           [d EXCEPT ![action.element].checked = action.saved.originalState]
      [] action.type = "neutralize" ->
           removeAttribute(
               RestoreBadgeDisplay(
                   AssignStyle(d, action.element, action.saved.originalStyles),
                   action.saved.badges, action.saved.badgeVisibility, 1),
               action.element, "data-lighton-neutralized")
      [] action.type = "equalize" ->
           [removeAttribute(
               RestoreAbsolute(
                   RestoreBadgeStyles(
                       AssignStyle(d, action.element, action.saved.originalStyles),
                       action.saved.badgeOriginalStyles),
                   action.saved.absoluteOriginalStyles),
               action.element, "data-lighton-equalized")
            EXCEPT ![action.element].classList = @ \ {"lighton-equalized"}]
      [] action.type = "emphasize" ->
           removeAttribute(
               AssignStyle(d, action.element, action.saved.originalStyles),
               action.element, "data-lighton-emphasized")
      [] action.type = "enlarge" ->
           removeAttribute(
               AssignStyle(d, action.element,
                           [fontSize |-> action.saved.originalFontSize]),
               action.element, "data-lighton-enlarged")
      [] action.type = "hide" ->
           removeAttribute(
               AssignStyle(d, action.element,
                           [display |-> action.saved.originalDisplay]),
               action.element, "data-lighton-hidden")

-----------------------------------------------------------------------------
(* sneaking.js: the action registry                                        *)

actionConfig ==
    [p \in {"asymmetric-buttons", "preselected-checkbox", "hidden-cancel",
            "visual-hierarchy-manipulation", "ambiguous-button", "small-print",
            "hidden-cost", "auto-add-cart", "free-trial-trap",
            "emotional-manipulation"} |->
        CASE p = "asymmetric-buttons" -> [available |-> <<>>]
          [] p = "preselected-checkbox" -> [available |-> <<"uncheck">>]
          [] p = "hidden-cancel" -> [available |-> <<"emphasize">>]
          [] p = "visual-hierarchy-manipulation" ->
                 [available |-> <<"equalize", "neutralize">>]
          [] p = "ambiguous-button" -> [available |-> <<"emphasize">>]
          [] p = "small-print" -> [available |-> <<"enlarge">>]
          [] p = "hidden-cost" -> [available |-> <<"emphasize">>]
          [] p = "auto-add-cart" -> [available |-> <<"uncheck">>]
          [] p = "free-trial-trap" -> [available |-> <<"emphasize">>]
          [] p = "emotional-manipulation" -> [available |-> <<>>]]

defaultConfig == [available |-> <<>>]

getAvailableActions(patternId) ==
    IF patternId \in DOMAIN actionConfig
    THEN actionConfig[patternId].available
    ELSE defaultConfig.available

\* Array.prototype.includes
includes(seq, x) == \E i \in 1..Len(seq) : seq[i] = x

-----------------------------------------------------------------------------
(* executor.js.  An executor state S holds the dom, the appliedActions Map  *)
(* (a sequence of records in insertion order), previewingActionId, the     *)
(* counter of fresh ids, and the history of the running call.  Each        *)
(* function maps S and its arguments to [S |-> the new state, ret |-> its  *)
(* return value].                                                          *)

\* Map.has / Map.get / Map.set / Map.delete on the sequence of records
MapHas(m, id) == \E i \in 1..Len(m) : m[i].actionId = id

MapGet(m, id) == m[CHOOSE i \in 1..Len(m) : m[i].actionId = id]

MapSet(m, id, rec) ==
    IF MapHas(m, id)
    THEN [i \in 1..Len(m) |-> IF m[i].actionId = id THEN rec ELSE m[i]]
    ELSE Append(m, rec)

MapDelete(m, id) == SelectSeq(m, LAMBDA r : r.actionId # id)

MapKeys(m) == {m[i].actionId : i \in 1..Len(m)}

\* actionId: `${patternId}-${Date.now()}-${random}`, fresh for each record.
FreshActionId(n) == ToString(n)

Event(ev, id, element) == [ev |-> ev, id |-> id, element |-> element]

\* The dispatch on actionType (executor.js:51-79 and 142-161); "default" is
\* the branch taken for any other action type.
Dispatch(d, element, actionType) ==
    CASE actionType = "uncheck" -> uncheckCheckbox(d, element)
      [] actionType = "equalize" -> equalizeVisualHierarchy(d, element)
      [] actionType = "neutralize" -> neutralizeHierarchy(d, element)
      [] actionType = "emphasize" -> emphasizeHidden(d, element)
      [] actionType = "enlarge" -> enlargeText(d, element)
      [] actionType = "hide" -> hideElement(d, element)
      [] OTHER -> [dom |-> d, result |-> Null]

IsDispatched(actionType) ==
    actionType \in {"uncheck", "equalize", "neutralize", "emphasize",
                    "enlarge", "hide"}

\* The record stored for an implementation's result r (executor.js:83-87 and
\* 165-168).
ActionRecord(r, actionId, patternId, actionType) ==
    [type |-> r.result.type, element |-> r.result.element,
     saved |-> r.result.saved, actionId |-> actionId,
     patternId |-> patternId, actionType |-> actionType]

\* executor.js:81-93: r is what the implementation returned.
StoreResult(S, patternId, element, actionType, r) ==
    IF r.result = Null
    THEN [S |-> [S EXCEPT !.dom = r.dom,
                          !.trace = Append(@, Event("impl", actionType, element))],
          ret |-> Null]
    ELSE [S |-> [S EXCEPT
                   !.dom = [r.dom EXCEPT ![element].actionIdAttr =
                                             FreshActionId(S.nextActionId)],
                   !.trace = Append(@, Event("impl", actionType, element)),
                   !.appliedActions =
                       MapSet(@, FreshActionId(S.nextActionId),
                              ActionRecord(r, FreshActionId(S.nextActionId),
                                           patternId, actionType)),
                   !.nextActionId = @ + 1],
          ret |-> ActionRecord(r, FreshActionId(S.nextActionId),
                               patternId, actionType)]

\* executeAction with the check of executor.js:43-46 left out: every action
\* type the switch knows is dispatched, whatever the registry lists.
executeActionUnvalidated(S, patternId, element, actionType) ==
    IF element = NoElem THEN [S |-> S, ret |-> Null]
    ELSE IF ~IsDispatched(actionType) THEN [S |-> S, ret |-> Null]
    ELSE StoreResult(S, patternId, element, actionType,
                     Dispatch(S.dom, element, actionType))

\* executor.js:35-94
executeAction(S, patternId, element, actionType) ==
    IF element = NoElem THEN [S |-> S, ret |-> Null]
    ELSE IF ~includes(getAvailableActions(patternId), actionType)
            /\ actionType # "hide"
    THEN [S |-> S, ret |-> Null]
    ELSE IF ~IsDispatched(actionType) THEN [S |-> S, ret |-> Null]
    ELSE StoreResult(S, patternId, element, actionType,
                     Dispatch(S.dom, element, actionType))

\* executor.js:163-171: action is the record being previewed, r what the
\* implementation returned on re-execution.
StoreNewResult(S, action, r) ==
    IF r.result = Null
    THEN [S |-> [S EXCEPT !.previewingActionId = NoId,
                          !.dom = r.dom,
                          !.trace = Append(@, Event("impl", action.actionType,
                                                    action.element))],
          ret |-> TRUE]
    ELSE [S |-> [S EXCEPT
                   !.previewingActionId = NoId,
                   !.dom = r.dom,
                   !.trace = Append(@, Event("impl", action.actionType,
                                             action.element)),
                   !.appliedActions =
                       MapSet(@, action.actionId,
                              ActionRecord(r, action.actionId, action.patternId,
                                           action.actionType)),
                   !.reverted = @ \ {action.actionId}],
          ret |-> TRUE]

\* executor.js:134-173: action is the record being previewed.
ReExecute(S, action) ==
    StoreNewResult(S, action, Dispatch(S.dom, action.element, action.actionType))

endPreview(S) ==
    IF S.previewingActionId = NoId THEN [S |-> S, ret |-> FALSE]
    ELSE IF ~MapHas(S.appliedActions, S.previewingActionId)
    THEN [S |-> [S EXCEPT !.previewingActionId = NoId], ret |-> FALSE]
    ELSE ReExecute(S, MapGet(S.appliedActions, S.previewingActionId))

\* executor.js:111-118: S1 is the state after any running preview was ended.
PreviewStart(S1, actionId) ==
    IF MapHas(S1.appliedActions, actionId)
    THEN [S |-> [S1 EXCEPT
                   !.dom = restore(@, MapGet(S1.appliedActions, actionId)),
                   !.trace = Append(@, Event("restore", actionId,
                                 MapGet(S1.appliedActions, actionId).element)),
                   !.previewingActionId = actionId,
                   !.reverted = @ \cup {actionId}],
          ret |-> TRUE]
    ELSE [S |-> S1, ret |-> FALSE]

\* previewOriginal with the endPreview() of executor.js:107-109 left out: a
\* running preview of another record is not ended first.
previewOriginalKeepsPreview(S, actionId) ==
    IF S.previewingActionId = actionId THEN [S |-> S, ret |-> TRUE]
    ELSE PreviewStart(S, actionId)

\* executor.js:102-119
previewOriginal(S, actionId) ==
    IF S.previewingActionId = actionId THEN [S |-> S, ret |-> TRUE]
    ELSE IF S.previewingActionId # NoId
    THEN PreviewStart(endPreview(S).S, actionId)
    ELSE PreviewStart(S, actionId)

\* undoAction with the delete of executor.js:206 left out: the record is
\* reverted and stays in the table.
undoActionKeepsRecord(S, actionId) ==
    IF MapHas(S.appliedActions, actionId)
    THEN [S |-> [S EXCEPT
                   !.dom = restore(@, MapGet(S.appliedActions, actionId)),
                   !.trace = Append(@, Event("restore", actionId,
                                 MapGet(S.appliedActions, actionId).element)),
                   !.reverted = @ \ {actionId}],
          ret |-> TRUE]
    ELSE [S |-> S, ret |-> FALSE]

\* executor.js:201-209
undoAction(S, actionId) ==
    IF MapHas(S.appliedActions, actionId)
    THEN [S |-> [S EXCEPT
                   !.dom = restore(@, MapGet(S.appliedActions, actionId)),
                   !.trace = Append(@, Event("restore", actionId,
                                 MapGet(S.appliedActions, actionId).element)),
                   !.appliedActions = MapDelete(@, actionId),
                   !.reverted = @ \ {actionId}],
          ret |-> TRUE]
    ELSE [S |-> S, ret |-> FALSE]

\* applyToAll: executeAction on each element of the array, in order; results
\* collects the non-null results.
RECURSIVE ApplyLoop(_, _, _, _, _)

\* executor.js:233-235: r is what executeAction returned for the element.
ApplyNext(r, patternId, elements, actionType, results) ==
    ApplyLoop(r.S, patternId, elements, actionType,
              IF r.ret = Null THEN results ELSE Append(results, r.ret))

ApplyLoop(S, patternId, elements, actionType, results) ==
    IF elements = <<>> THEN [S |-> S, ret |-> results]
    ELSE ApplyNext(executeAction(S, patternId, Head(elements), actionType),
                   patternId, Tail(elements), actionType, results)

applyToAll(S, patternId, elements, actionType) ==
    ApplyLoop(S, patternId, elements, actionType, <<>>)

\* The forEach of clearAll from position i on; the restore of the record at
\* position throwAt throws (0: no restore throws), which ends the forEach
\* and the call.
RECURSIVE ClearLoop(_, _, _)
ClearLoop(S, i, throwAt) ==
    IF i > Len(S.appliedActions) THEN [S |-> S, threw |-> FALSE]
    ELSE IF i = throwAt
    THEN [S |-> [S EXCEPT !.trace = Append(@, Event("throw",
                              S.appliedActions[i].actionId,
                              S.appliedActions[i].element))],
          threw |-> TRUE]
    ELSE ClearLoop(
            [S EXCEPT !.dom = restore(@, S.appliedActions[i]),
                      !.trace = Append(@, Event("restore",
                                   S.appliedActions[i].actionId,
                                   S.appliedActions[i].element))],
            i + 1, throwAt)

\* executor.js:249, reached when the forEach r did not throw
ClearTable(r) ==
    IF r.threw THEN r
    ELSE [S |-> [r.S EXCEPT !.appliedActions = <<>>, !.reverted = {}],
          threw |-> FALSE]

clearAll(S, throwAt) == ClearTable(ClearLoop(S, 1, throwAt))

getAppliedCount == Len(appliedActions)

isPreviewing == previewingActionId # NoId

-----------------------------------------------------------------------------
(* The detector (scripts/detector.js)                                      *)

\* node.contains(other): other is node or lies below it.
RECURSIVE contains(_, _)
contains(node, other) ==
    IF node = other THEN TRUE
    ELSE IF other = "body" THEN FALSE
    ELSE contains(node, parentElement(other))

\* No call of a pure function yet.
NoCalc == [op |-> "none", in |-> <<>>, out |-> <<>>]

\* The pattern ids of results in the order of their first occurrence: the
\* keys of byPattern (detector.js:978-985).
RECURSIVE PatternOrder(_, _)
PatternOrder(results, seen) ==
    IF results = <<>> THEN <<>>
    ELSE IF Head(results).patternId \in seen
    THEN PatternOrder(Tail(results), seen)
    ELSE <<Head(results).patternId>>
            \o PatternOrder(Tail(results), seen \cup {Head(results).patternId})

\* detector.js:991-999: the first result of every element.
RECURSIVE UniqueResults(_, _)
UniqueResults(patternResults, seenElements) ==
    IF patternResults = <<>> THEN <<>>
    ELSE IF Head(patternResults).element \in seenElements
    THEN UniqueResults(Tail(patternResults), seenElements)
    ELSE <<Head(patternResults)>>
            \o UniqueResults(Tail(patternResults),
                             seenElements \cup {Head(patternResults).element})

\* ToKeep with the inner loop of detector.js:1010 running over the results
\* before `result` only.
ToKeepAgainstEarlier(uniqueResults) ==
    SelectSeq(uniqueResults,
              LAMBDA result :
                  ~\E i \in 1..Len(uniqueResults) :
                      /\ \E j \in i + 1..Len(uniqueResults) : uniqueResults[j] = result
                      /\ contains(result.element, uniqueResults[i].element)
                      /\ result.element # uniqueResults[i].element)

\* detector.js:1007-1025: the results none of whose descendants matched.
ToKeep(uniqueResults) ==
    SelectSeq(uniqueResults,
              LAMBDA result :
                  ~\E i \in 1..Len(uniqueResults) :
                      /\ uniqueResults[i] # result
                      /\ contains(result.element, uniqueResults[i].element)
                      /\ result.element # uniqueResults[i].element)

\* detector.js:1001-1027
DedupGroup(uniqueResults) ==
    IF Len(uniqueResults) = 1 THEN uniqueResults ELSE ToKeep(uniqueResults)

\* DedupGroups without the grouping of detector.js:978-985: the results of
\* all patterns are deduplicated as one group.
DedupGroupsAcrossPatterns(results, ids) ==
    IF ids = <<>> THEN <<>> ELSE DedupGroup(UniqueResults(results, {}))

\* detector.js:989-1028, over the pattern ids in ids
RECURSIVE DedupGroups(_, _)
DedupGroups(results, ids) ==
    IF ids = <<>> THEN <<>>
    ELSE DedupGroup(UniqueResults(
                        SelectSeq(results, LAMBDA r : r.patternId = Head(ids)),
                        {}))
            \o DedupGroups(results, Tail(ids))

\* deduplicateResults with the descendant check of detector.js:1007-1025 left
\* out: only same-element duplicates are dropped.
RECURSIVE UniqueGroups(_, _)
UniqueGroups(results, ids) ==
    IF ids = <<>> THEN <<>>
    ELSE UniqueResults(SelectSeq(results, LAMBDA r : r.patternId = Head(ids)), {})
            \o UniqueGroups(results, Tail(ids))

deduplicateSameElementOnly(results) ==
    UniqueGroups(results, PatternOrder(results, {}))

\* detector.js:976-1032
deduplicateResults(results) ==
    DedupGroups(results, PatternOrder(results, {}))

\* config.maxElementsPerScan (detector.js:28), scaled from 1000 to the size
\* of the page above so that a scan can run into it.
maxElementsPerScan == 5

\* config.excludeSelectors (detector.js:29-32)
excludeSelectors ==
    <<"script", "style", "noscript", "template", "[data-lighton-ignore]">>

\* A selector the browser rejects: matches and querySelectorAll throw on it.
InvalidSelector == ":::"

\* element.matches(selector) for the selectors of the catalog and of the
\* configuration, on the dom d.
matches(d, element, selector) ==
    CASE selector = "[data-lighton-ignore]" -> element = "ignore"
      [] selector = "input[type=\"checkbox\"]:checked" ->
            element = "cb" /\ d["cb"].checked
      [] selector = "input[type=\"checkbox\"][checked]" -> element = "cb"
      [] selector = "[class*=\"checkout\"]" -> element = "label"
      [] selector = "[class*=\"card\"]" -> element \in {"card1", "card2"}
      [] selector = ".badge" -> element = "badge"
      [] selector = "button" -> element = "inner"
      [] OTHER -> FALSE

\* rootElement.querySelectorAll(selector): the elements below rootElement that
\* match, in document order.
querySelectorAll(d, rootElement, selector) ==
    SelectSeq(Document,
              LAMBDA e : /\ e # rootElement
                         /\ contains(rootElement, e)
                         /\ (selector = "*" \/ matches(d, e, selector)))

\* The words of the text nodes that are children of e.
OwnText(e) ==
    CASE e = "card1" -> {"plan"}
      [] e = "badge" -> {"popular"}
      [] e = "card2" -> {"plan", "cancel"}
      [] e = "label" -> {"newsletter", "premium"}
      [] e = "inner" -> {"cancel"}
      [] OTHER -> {}

\* detector.js:67-70: the text nodes of a parent that computes display: none
\* or visibility: hidden are rejected.
TextRejected(d, parent) ==
    /\ parent \in Elems
    /\ \/ getComputedStyle(d, parent, "display") = "none"
       \/ getComputedStyle(d, parent, "visibility") = "hidden"

\* getVisibleText (detector.js:49-82), as the set of its words; an INPUT has
\* neither value nor placeholder on this page.
getVisibleText(d, element) ==
    IF element \in Elems /\ tagName(element) = "INPUT" THEN {}
    ELSE UNION {OwnText(e) : e \in {n \in Nodes : contains(element, n)
                                                    /\ ~TextRejected(d, n)}}

\* A field of a detector that the pattern definition sets / leaves out.
Def(v) == [defined |-> TRUE, value |-> v]

NoWords == [defined |-> FALSE, value |-> {}]

NoList == [defined |-> FALSE, value |-> <<>>]

\* matchesPatterns (detector.js:87-98); a pattern matches a text that holds
\* its word.
matchesPatterns(text, textPatterns) ==
    /\ text # {}
    /\ textPatterns.defined
    /\ text \cap textPatterns.value # {}

\* matchesContext (detector.js:103-116)
matchesContext(d, element, contexts) ==
    \/ ~contexts.defined
    \/ Len(contexts.value) = 0
    \/ \E i \in 1..Len(contexts.value) :
          \/ contexts.value[i] = "*"
          \/ /\ contexts.value[i] # InvalidSelector
             /\ matches(d, element, contexts.value[i])

\* hasNearbyText (detector.js:354-383); no element of the page has an id.
hasNearbyText(d, element, textPatterns) ==
    \/ ~textPatterns.defined
    \/ textPatterns.value = {}
    \/ matchesPatterns(getVisibleText(d, parentElement(element)), textPatterns)
    \/ \E i \in 1..Len(children(parentElement(element))) :
          /\ children(parentElement(element))[i] # element
          /\ matchesPatterns(getVisibleText(d, children(parentElement(element))[i]),
                             textPatterns)

\* shouldExclude (detector.js:388-393)
shouldExclude(d, element, excludePatterns) ==
    /\ excludePatterns.defined
    /\ matchesPatterns(getVisibleText(d, element), excludePatterns)

\* A match a detector pushes (detector.js:423-427, 466-470, 925-928).
Match(element) == [element |-> element]

Matches(elements) == [i \in 1..Len(elements) |-> Match(elements[i])]

\* processTextDetector (detector.js:398-431); the detectors of the catalog set
\* neither nearPriceElement nor requiresModalContext.
processTextDetector(d, detector, elements) ==
    Matches(SelectSeq(elements,
        LAMBDA element :
            /\ matchesContext(d, element, detector.contexts)
            /\ matchesPatterns(getVisibleText(d, element), detector.patterns)))

\* isInModalContext (detector.js:171-186)
RECURSIVE isInModalContext(_, _, _)
isInModalContext(d, element, contextSelectors) ==
    IF ~contextSelectors.defined THEN TRUE
    ELSE IF element = "body" THEN FALSE
    ELSE IF \E i \in 1..Len(contextSelectors.value) :
                matches(d, element, contextSelectors.value[i])
    THEN TRUE
    ELSE isInModalContext(d, parentElement(element), contextSelectors)

\* detector.js:441-472 for one selector; an invalid selector throws inside
\* the try and is skipped (473-475).
SelectorMatches(d, detector, rootElement, selector) ==
    IF selector = InvalidSelector THEN <<>>
    ELSE Matches(SelectSeq(querySelectorAll(d, rootElement, selector),
            LAMBDA element :
                /\ isInModalContext(d, element, detector.contextSelectors)
                /\ hasNearbyText(d, element, detector.nearbyTextPatterns)
                /\ ~shouldExclude(d, element, detector.excludePatterns)))

RECURSIVE SelectorLoop(_, _, _, _)
SelectorLoop(d, detector, rootElement, selectors) ==
    IF selectors = <<>> THEN <<>>
    ELSE SelectorMatches(d, detector, rootElement, Head(selectors))
            \o SelectorLoop(d, detector, rootElement, Tail(selectors))

\* processSelectorDetector (detector.js:436-479); the detectors of the catalog
\* set neither contextSelectors nor nearPriceElement.  Called only when
\* detector.selectors is defined: see Throws.
processSelectorDetector(d, detector, rootElement) ==
    SelectorLoop(d, detector, rootElement, detector.selectors.value)

\* detector.js:887-901: the elements a combined detector looks at.
RECURSIVE SelectedElements(_, _, _, _)
SelectedElements(d, rootElement, selectors, seen) ==
    IF selectors = <<>> THEN <<>>
    ELSE IF Head(selectors) = InvalidSelector
    THEN SelectedElements(d, rootElement, Tail(selectors), seen)
    ELSE SelectSeq(querySelectorAll(d, rootElement, Head(selectors)),
                   LAMBDA e : e \notin seen)
            \o SelectedElements(d, rootElement, Tail(selectors),
                   seen \cup {e \in Nodes : matches(d, e, Head(selectors))})

CombinedElements(d, detector, rootElement) ==
    IF detector.selectors.defined
    THEN SelectedElements(d, rootElement, detector.selectors.value, {})
    ELSE querySelectorAll(d, rootElement, "*")

\* processCombinedDetector (detector.js:874-936), its generic mode: the
\* detectors of the catalog set neither visualChecks nor siblingAnalysis.
processCombinedDetector(d, detector, rootElement) ==
    Matches(SelectSeq(CombinedElements(d, detector, rootElement),
        LAMBDA element :
            \/ ~detector.textPatterns.defined
            \/ matchesPatterns(getVisibleText(d, element), detector.textPatterns)))

\* detector.js:439: `for (const selector of detector.selectors)` throws a
\* TypeError when the detector has no selectors; nothing catches it.
Throws(detector) ==
    detector.type = "selector" /\ ~detector.selectors.defined

\* The switch of detector.js:1076-1086
DetectorMatches(d, detector, rootElement, elementsToScan) ==
    CASE detector.type = "text" -> processTextDetector(d, detector, elementsToScan)
      [] detector.type = "selector" -> processSelectorDetector(d, detector, rootElement)
      [] detector.type = "combined" -> processCombinedDetector(d, detector, rootElement)
      [] OTHER -> <<>>

\* The elements the detector runs its checks on.
DetectorEvaluates(d, detector, rootElement, elementsToScan) ==
    CASE detector.type = "text" ->
            {elementsToScan[i] : i \in 1..Len(elementsToScan)}
      [] detector.type = "selector" ->
            UNION {{e \in Nodes : /\ e # rootElement
                                  /\ contains(rootElement, e)
                                  /\ matches(d, e, detector.selectors.value[i])}
                   : i \in 1..Len(detector.selectors.value)}
      [] detector.type = "combined" ->
            {CombinedElements(d, detector, rootElement)[i]
               : i \in 1..Len(CombinedElements(d, detector, rootElement))}
      [] OTHER -> {}

\* detector.js:1055-1065
shouldSkip(d, element) ==
    \E i \in 1..Len(excludeSelectors) : matches(d, element, excludeSelectors[i])

\* detector.js:1052-1070: elementsToScan, built from allElements
RECURSIVE Admit(_, _, _, _)
Admit(d, processed, allElements, elementsToScan) ==
    IF allElements = <<>> \/ Len(elementsToScan) >= maxElementsPerScan
    THEN elementsToScan
    ELSE IF shouldSkip(d, Head(allElements)) \/ Head(allElements) \in processed
    THEN Admit(d, processed, Tail(allElements), elementsToScan)
    ELSE Admit(d, processed, Tail(allElements),
               Append(elementsToScan, Head(allElements)))

\* The elements the loop of detector.js:1052-1070 does not reach because it
\* breaks on the budget.
RECURSIVE Unreached(_, _, _, _)
Unreached(d, processed, allElements, admitted) ==
    IF allElements = <<>> THEN {}
    ELSE IF admitted >= maxElementsPerScan
    THEN {allElements[i] : i \in 1..Len(allElements)}
    ELSE IF shouldSkip(d, Head(allElements)) \/ Head(allElements) \in processed
    THEN Unreached(d, processed, Tail(allElements), admitted)
    ELSE Unreached(d, processed, Tail(allElements), admitted + 1)

\* The (pattern, detector) pairs in the order scan visits them
\* (detector.js:1073-1074).
RECURSIVE Jobs(_)
Jobs(catalog) ==
    IF catalog = <<>> THEN <<>>
    ELSE [i \in 1..Len(Head(catalog).detectors) |->
             [patternId |-> Head(catalog).id, detector |-> Head(catalog).detectors[i],
              index |-> i]]
            \o Jobs(Tail(catalog))

\* detector.js:1089-1099: the results pushed for the matches of one detector
Results(job, found) ==
    [i \in 1..Len(found) |->
        [patternId |-> job.patternId, element |-> found[i].element,
         detector |-> job.index]]

\* No call of scan yet.
NoScan ==
    [op |-> "none", catalog |-> <<>>, threw |-> FALSE, results |-> <<>>,
     raw |-> <<>>, elementsToScan |-> <<>>, unreached |-> {}, evaluated |-> {}]

\* detector.js:1073-1110: the loop over the detectors.  D is the detector
\* state [processedElements, out]; a detector that throws ends the call.
RECURSIVE ScanLoop(_, _, _, _)
ScanPush(d, D, jobs, rootElement, found) ==
    ScanLoop(d,
             [processedElements |->
                  D.processedElements \cup {found[i].element : i \in 1..Len(found)},
              out |-> [D.out EXCEPT
                         !.raw = @ \o Results(Head(jobs), found),
                         !.evaluated = @ \cup DetectorEvaluates(d, Head(jobs).detector,
                                            rootElement, D.out.elementsToScan)]],
             Tail(jobs), rootElement)

ScanLoop(d, D, jobs, rootElement) ==
    IF jobs = <<>>
    THEN [D EXCEPT !.out.results = deduplicateResults(D.out.raw)]
    ELSE IF Throws(Head(jobs).detector)
    THEN [D EXCEPT !.out.threw = TRUE]
    ELSE ScanPush(d, D, jobs, rootElement,
                  DetectorMatches(d, Head(jobs).detector, rootElement,
                                  D.out.elementsToScan))

\* scan (detector.js:1037-1110) of rootElement on the dom d, with the catalog
\* registry.getAll() returned and the processedElements of the detector.
scan(d, catalog, processed, rootElement) ==
    IF Len(catalog) = 0
    THEN [processedElements |-> processed,
          out |-> [NoScan EXCEPT !.op = "scan"]]
    ELSE ScanLoop(d,
             [processedElements |-> processed,
              out |-> [NoScan EXCEPT
                         !.op = "scan", !.catalog = catalog,
                         !.elementsToScan =
                             Admit(d, processed,
                                   querySelectorAll(d, rootElement, "*"), <<>>),
                         !.unreached =
                             Unreached(d, processed,
                                       querySelectorAll(d, rootElement, "*"), 0)]],
             Jobs(catalog), rootElement)

\* clearCache (detector.js:1115-1119) clears detectionCache, which scan never
\* reads or writes; processedElements is left as it is.
clearCache(processed) == processed

-----------------------------------------------------------------------------
(* The pattern registry (PatternRegistry) and the catalog                  *)

TextDetector(textPatterns, contexts) ==
    [type |-> "text", patterns |-> textPatterns, contexts |-> contexts,
     selectors |-> NoList, nearbyTextPatterns |-> NoWords,
     excludePatterns |-> NoWords, textPatterns |-> NoWords]

SelectorDetector(selectors, nearbyTextPatterns, excludePatterns) ==
    [type |-> "selector", patterns |-> NoWords, contexts |-> NoList,
     selectors |-> selectors, nearbyTextPatterns |-> nearbyTextPatterns,
     excludePatterns |-> excludePatterns, textPatterns |-> NoWords,
     contextSelectors |-> NoList]

CombinedDetector(selectors, textPatterns) ==
    [type |-> "combined", patterns |-> NoWords, contexts |-> NoList,
     selectors |-> selectors, nearbyTextPatterns |-> NoWords,
     excludePatterns |-> NoWords, textPatterns |-> textPatterns]

\* A pattern definition with every required field set (interface.js:9-40).
Pattern(id, detectors) ==
    [id |-> id, category |-> "interface", name |-> [ko |-> id, en |-> id],
     description |-> id, severity |-> "medium", detectors |-> detectors,
     highlight |-> "badge"]

\* interface.js:49-84: one selector detector on checked checkboxes, with
\* nearbyTextPatterns and excludePatterns.
PreselectedCheckbox ==
    Pattern("preselected-checkbox",
            <<SelectorDetector(Def(<<"input[type=\"checkbox\"]:checked">>),
                               Def({"newsletter", "marketing"}),
                               Def({"remember"}))>>)

\* interface.js:86-121: one text detector; its contexts are left out here so
\* that containers and their content both match.
HiddenCancel ==
    Pattern("hidden-cancel", <<TextDetector(Def({"cancel"}), NoList)>>)

\* A pattern with two detectors that hit overlapping elements; the selector
\* detector lists an invalid selector first.
EmotionalManipulation ==
    Pattern("emotional-manipulation",
            <<TextDetector(Def({"popular"}), Def(<<"[class*=\"card\"]", ".badge">>)),
              SelectorDetector(Def(<<InvalidSelector, ".badge", "[class*=\"card\"]">>),
                               NoWords, NoWords)>>)

\* A selector detector on buttons.
AutoAddCart ==
    Pattern("auto-add-cart", <<SelectorDetector(Def(<<"button">>), NoWords, NoWords)>>)

\* sneaking.js:105-137: the selector detector of 'auto-add-cart', whose first
\* selector tests the checked attribute of the markup.
AutoAddCartPreselected ==
    Pattern("auto-add-cart",
            <<[SelectorDetector(Def(<<"input[type=\"checkbox\"][checked]",
                                      "input[type=\"checkbox\"]:checked">>),
                                Def({"insurance", "warranty", "premium"}),
                                NoWords)
                  EXCEPT !.contextSelectors =
                             Def(<<"[class*=\"cart\"]", "[class*=\"checkout\"]">>)]>>)

\* A combined detector in its generic mode, without selectors.
HiddenCost ==
    Pattern("hidden-cost", <<CombinedDetector(NoList, Def({"plan"}))>>)

\* A text detector without patterns.
AmbiguousButton ==
    Pattern("ambiguous-button", <<TextDetector(NoWords, Def(<<"*">>))>>)

\* A selector detector without selectors, followed by a sound detector.
FreeTrialTrap ==
    Pattern("free-trial-trap",
            <<SelectorDetector(NoList, NoWords, NoWords),
              TextDetector(Def({"newsletter"}), NoList)>>)

\* A pattern without detectors.
NaggingPopup == Pattern("nagging-popup", <<>>)

PatternPool ==
    {PreselectedCheckbox, HiddenCancel, EmotionalManipulation, AutoAddCart,
     HiddenCost, AmbiguousButton, FreeTrialTrap, NaggingPopup}

\* validatePattern (part_000:168-189)
validatePattern(pattern) ==
    /\ pattern.id # ""
    /\ pattern.category # ""
    /\ pattern.description # ""
    /\ pattern.severity # ""
    /\ pattern.highlight # ""
    /\ pattern.name.ko # "" \/ pattern.name.en # ""
    /\ Len(pattern.detectors) > 0

\* register (part_000:196-210)
register(list, pattern) ==
    IF ~validatePattern(pattern) THEN [patterns |-> list, ret |-> FALSE]
    ELSE IF \E i \in 1..Len(list) : list[i].id = pattern.id
    THEN [patterns |-> list, ret |-> FALSE]
    ELSE [patterns |-> Append(list, pattern), ret |-> TRUE]

\* registerAll (part_000:217-225)
RECURSIVE registerAll(_, _, _)
registerAll(list, patternList, count) ==
    IF patternList = <<>> THEN [patterns |-> list, ret |-> count]
    ELSE registerAll(register(list, Head(patternList)).patterns,
                     Tail(patternList),
                     IF register(list, Head(patternList)).ret
                     THEN count + 1 ELSE count)

\* getAll (part_000:231-233)
getAll(list) == list

-----------------------------------------------------------------------------
(* The state machine: the page as loaded, and one action per call of the   *)
(* executor's public API (made by the message handler, content.js:953-995, *)
(* and by the hover UI).                                                   *)

\* Inputs of executeAction, as (patternId, element, actionType).  The
\* accepted calls cover every action type the executor dispatches, on an
\* element with a sibling and on one without, and 'hide' for a rule with an
\* empty action list.
AcceptedCalls ==
    {<<"preselected-checkbox", "cb", "uncheck">>,
     <<"visual-hierarchy-manipulation", "card1", "equalize">>,
     <<"visual-hierarchy-manipulation", "cb", "equalize">>,
     <<"visual-hierarchy-manipulation", "card1", "neutralize">>,
     <<"hidden-cancel", "card2", "emphasize">>,
     <<"small-print", "card2", "enlarge">>,
     <<"asymmetric-buttons", "card1", "hide">>}

\* Calls the executor turns down: a missing element, an action type the rule
\* does not register, an action type the executor does not know, a rule the
\* registry does not know, an element the implementation does not accept.
RejectedCalls ==
    {<<"preselected-checkbox", NoElem, "uncheck">>,
     <<"preselected-checkbox", "card1", "equalize">>,
     <<"asymmetric-buttons", "card1", "equalizeButtons">>,
     <<"not-in-registry", "cb", "uncheck">>,
     <<"preselected-checkbox", "card2", "uncheck">>}

ExecCalls == AcceptedCalls \cup RejectedCalls

\* Inputs of applyToAll, as (patternId, elements, actionType).
ApplyCalls ==
    {<<"asymmetric-buttons", <<"card1", "card2">>, "hide">>,
     <<"preselected-checkbox", <<"cb", "cb">>, "uncheck">>,
     <<"small-print", <<NoElem, "card2">>, "enlarge">>}

\* Inputs of undoAction and previewOriginal: every id issued so far (live,
\* undone or cleared) and one that was never issued.
ActionIds == {FreshActionId(n) : n \in 1..nextActionId}

\* Inline styles the page may give the featured card.
FeaturedStyles ==
    {[EmptyStyle EXCEPT !.transform = "scale(1.05)", !.zIndex = "10",
                        !.boxShadow = "0 4px 12px gold"]}

\* Inline styles the page may give the badge of the featured card.
BadgeStyles ==
    {[EmptyStyle EXCEPT !.position = "absolute"],
     [EmptyStyle EXCEPT !.display = "inline-block"]}

PageElement(style, checked) ==
    [style |-> style, checked |-> checked, attrs |-> {},
     actionIdAttr |-> NoId, classList |-> {}]

NoCall ==
    [op |-> "load", actionId |-> "", ret |-> "", trace |-> <<>>, threw |-> FALSE]

\* The page and the executor as loaded.
PageLoaded ==
    /\ \E checked \in {TRUE}, featured \in FeaturedStyles, badge \in BadgeStyles :
          dom = [e \in Elems |->
                   CASE e = "cb" -> PageElement(EmptyStyle, checked)
                     [] e = "card1" -> PageElement(featured, FALSE)
                     [] e = "card2" -> PageElement(EmptyStyle, FALSE)
                     [] e = "badge" -> PageElement(badge, FALSE)]
    /\ appliedActions = <<>>
    /\ previewingActionId = NoId
    /\ nextActionId = 1
    /\ reverted = {}
    /\ before = dom
    /\ last = NoCall

\* scanTimeout = null (content.js:485); the handles setTimeout returns are
\* positive.
NoTimer == 0

\* An element without the attribute data-lighton-id.
NoAttr == [defined |-> FALSE, value |-> 0]

NoScanRun == [origin |-> "none", previewing |-> FALSE]

\* The detector before any pattern is registered and any scan is run.
DetectorIdle ==
    /\ patterns = <<>>
    /\ processedElements = {}
    /\ scanOut = NoScan

\* background.js:8-47: the service worker has started; nothing is cached
\* and no request has been made.
BackgroundStarted ==
    /\ now = 0
    /\ requests = <<>>
    /\ secessionCache = <<>>
    /\ lookups = <<>>
    /\ issued = <<>>
    /\ started = 0

\* The content script with no timer set.
ContentIdle ==
    /\ isEnabled = TRUE
    /\ currentResults = <<>>
    /\ scanTimeout = NoTimer
    /\ timers = {}
    /\ elementIdCounter = 0
    /\ lightonId = [e \in Nodes |-> NoAttr]
    /\ nextTimer = 1
    /\ lastScan = NoScanRun

Init ==
    /\ PageLoaded
    /\ BackgroundStarted
    /\ DetectorIdle
    /\ ContentIdle
    /\ calc = NoCalc

\* The executor state at the start of a call.
Cur ==
    [dom |-> dom, appliedActions |-> appliedActions,
     previewingActionId |-> previewingActionId, nextActionId |-> nextActionId,
     reverted |-> reverted, trace |-> <<>>]

\* The executor state S at the end of a call, and the record of the call.
Leave(S, call) ==
    /\ dom' = S.dom
    /\ appliedActions' = S.appliedActions
    /\ previewingActionId' = S.previewingActionId
    /\ nextActionId' = S.nextActionId
    /\ reverted' = S.reverted
    /\ before' = IF call.op \in {"executeAction", "previewOriginal"}
                 THEN dom ELSE S.dom
    /\ last' = [call EXCEPT !.trace = S.trace]

Return(S, call) ==
    /\ Leave(S, call)
    /\ UNCHANGED <<detectorVars, contentVars, calc, backgroundVars>>

BoolStr(b) == IF b THEN "true" ELSE "false"

\* r is what executeAction returned.
ExecuteReturn(r) ==
    /\ r.ret = Null \/ nextActionId <= MaxActions
    /\ Return(r.S, [NoCall EXCEPT !.op = "executeAction",
                      !.ret = IF r.ret = Null THEN "null" ELSE r.ret.actionId])

ExecuteAction ==
    \E call \in ExecCalls :
        ExecuteReturn(executeAction(Cur, call[1], call[2], call[3]))

\* r is what applyToAll returned.
ApplyReturn(r) ==
    /\ r.S.nextActionId <= MaxActions + 1
    /\ Return(r.S, [NoCall EXCEPT !.op = "applyToAll",
                      !.ret = ToString(Len(r.ret))])

ApplyToAll ==
    \E call \in ApplyCalls :
        ApplyReturn(applyToAll(Cur, call[1], call[2], call[3]))

\* r is what the call op(actionId) returned.
BoolReturn(r, op, actionId) ==
    Return(r.S, [NoCall EXCEPT !.op = op, !.actionId = actionId,
                   !.ret = BoolStr(r.ret)])

UndoAction ==
    \E actionId \in ActionIds :
        BoolReturn(undoAction(Cur, actionId), "undoAction", actionId)

PreviewOriginal ==
    \E actionId \in ActionIds :
        BoolReturn(previewOriginal(Cur, actionId), "previewOriginal", actionId)

EndPreview == BoolReturn(endPreview(Cur), "endPreview", "")

\* r is what clearAll returned or threw.
ClearReturn(r) ==
    Return(r.S, [NoCall EXCEPT !.op = "clearAll",
                   !.ret = IF r.threw THEN "exception" ELSE "undefined",
                   !.threw = r.threw])

ClearAll == ClearReturn(clearAll(Cur, 0))

\* clearAll when the restore of one live record throws.
ClearAllThrows ==
    \E throwAt \in 1..Len(appliedActions) :
        ClearReturn(clearAll(Cur, throwAt))

Next ==
    \/ ExecuteAction
    \/ ApplyToAll
    \/ UndoAction
    \/ PreviewOriginal
    \/ EndPreview
    \/ ClearAll

Spec == Init /\ [][Next]_vars

NextThrows == Next \/ ClearAllThrows

SpecThrows == Init /\ [][NextThrows]_vars

-----------------------------------------------------------------------------
(* The executor driven through preview round trips: actions are executed,   *)
(* then the record executed last is previewed and the preview ended any     *)
(* number of times, then the record is undone.  calc remembers that record, *)
(* its node and the dom before its execution.                               *)

\* r is what executeAction returned.
RoundTripExecute ==
    \E call \in AcceptedCalls :
        /\ calc.op \in {"none", "executeAction"}
        /\ nextActionId <= MaxActions
        /\ executeAction(Cur, call[1], call[2], call[3]).ret # Null
        /\ Leave(executeAction(Cur, call[1], call[2], call[3]).S,
                 [NoCall EXCEPT !.op = "executeAction",
                                !.ret = FreshActionId(nextActionId)])
        /\ calc' = [op |-> "executeAction",
                    in |-> <<FreshActionId(nextActionId), call[2], dom>>,
                    out |-> <<>>]
        /\ UNCHANGED <<detectorVars, contentVars, backgroundVars>>

RoundTripPreview ==
    /\ calc.op \in {"executeAction", "endPreview"}
    /\ Leave(previewOriginal(Cur, calc.in[1]).S,
             [NoCall EXCEPT !.op = "previewOriginal", !.actionId = calc.in[1],
                            !.ret = BoolStr(previewOriginal(Cur, calc.in[1]).ret)])
    /\ calc' = [calc EXCEPT !.op = "previewOriginal"]
    /\ UNCHANGED <<detectorVars, contentVars, backgroundVars>>

RoundTripEnd ==
    /\ calc.op = "previewOriginal"
    /\ Leave(endPreview(Cur).S,
             [NoCall EXCEPT !.op = "endPreview",
                            !.ret = BoolStr(endPreview(Cur).ret)])
    /\ calc' = [calc EXCEPT !.op = "endPreview"]
    /\ UNCHANGED <<detectorVars, contentVars, backgroundVars>>

RoundTripUndo ==
    /\ calc.op \in {"executeAction", "endPreview"}
    /\ Leave(undoAction(Cur, calc.in[1]).S,
             [NoCall EXCEPT !.op = "undoAction", !.actionId = calc.in[1],
                            !.ret = BoolStr(undoAction(Cur, calc.in[1]).ret)])
    /\ calc' = [calc EXCEPT !.op = "undoAction",
                            !.out = <<calc.op>>]
    /\ UNCHANGED <<detectorVars, contentVars, backgroundVars>>

NextRoundTrip ==
    \/ RoundTripExecute
    \/ RoundTripPreview
    \/ RoundTripEnd
    \/ RoundTripUndo

SpecRoundTrip == Init /\ [][NextRoundTrip]_vars

-----------------------------------------------------------------------------
(* The detector on its own: patterns are registered and the page is         *)
(* scanned; the page does not change.                                       *)

Register ==
    \E pattern \in PatternPool :
        /\ Len(patterns) < MaxPatterns
        /\ patterns' = register(patterns, pattern).patterns
        /\ UNCHANGED <<processedElements, scanOut, executorVars, contentVars, calc, backgroundVars>>

\* The lists registerAll is called with: a pattern file's patterns, one of
\* them twice.
PatternLists ==
    {<<HiddenCancel, NaggingPopup, HiddenCancel>>,
     <<PreselectedCheckbox, AmbiguousButton>>}

RegisterAll ==
    \E patternList \in PatternLists :
        /\ Len(registerAll(patterns, patternList, 0).patterns) <= MaxPatterns
        /\ patterns' = registerAll(patterns, patternList, 0).patterns
        /\ UNCHANGED <<processedElements, scanOut, executorVars, contentVars, calc, backgroundVars>>

\* D is what scan left and returned.
ScanReturn(D) ==
    /\ processedElements' = D.processedElements
    /\ scanOut' = D.out
    /\ UNCHANGED <<patterns, executorVars, contentVars, calc, backgroundVars>>

Scan == ScanReturn(scan(dom, getAll(patterns), processedElements, "body"))

ClearCache ==
    /\ processedElements' = clearCache(processedElements)
    /\ scanOut' = [scanOut EXCEPT !.op = "clearCache"]
    /\ UNCHANGED <<patterns, executorVars, contentVars, calc, backgroundVars>>

NextScan == Register \/ RegisterAll \/ Scan \/ ClearCache

SpecScan == Init /\ [][NextScan]_vars

-----------------------------------------------------------------------------
(* deduplicateResults on its own: a list of raw matches is built and        *)
(* deduplicated.                                                            *)

RawPatternIds == {"hidden-cancel", "emotional-manipulation"}

RawElements == {"plans", "card1", "badge", "card2"}

PushResult ==
    \E patternId \in RawPatternIds, element \in RawElements, detector \in 1..2 :
        /\ Len(calc.in) < MaxRaw
        /\ calc' = [op |-> "raw",
                    in |-> Append(calc.in, [patternId |-> patternId,
                                            element |-> element,
                                            detector |-> detector]),
                    out |-> <<>>]
        /\ UNCHANGED <<executorVars, detectorVars, contentVars, backgroundVars>>

Deduplicate ==
    /\ calc' = [op |-> "deduplicateResults", in |-> calc.in,
                out |-> deduplicateResults(calc.in)]
    /\ UNCHANGED <<executorVars, detectorVars, contentVars, backgroundVars>>

NextDedup == PushResult \/ Deduplicate

SpecDedup == Init /\ [][NextDedup]_vars

-----------------------------------------------------------------------------
(* The content script (content.js:452-1064): the catalog is loaded,        *)
(* initialize has run, and the page, the timers, the popup's messages and   *)
(* the hover UI drive it.                                                   *)

\* sneaking.js:244-308, 353-360: the patterns whose actionConfig has
\* autoApply enabled; the action of both is 'uncheck'.
getAutoApplyPatterns == {"preselected-checkbox", "auto-add-cart"}

\* content.js:765-804
RECURSIVE autoApplyActions(_, _)
autoApplyActions(S, results) ==
    IF results = <<>> THEN S
    ELSE IF Head(results).patternId \notin getAutoApplyPatterns
    THEN autoApplyActions(S, Tail(results))
    ELSE IF S.dom[Head(results).element].attrs
                \cap {"data-lighton-equalized", "data-lighton-neutralized"} # {}
    THEN autoApplyActions(S, Tail(results))
    ELSE autoApplyActions(
             executeAction(S, Head(results).patternId, Head(results).element,
                           "uncheck").S,
             Tail(results))

\* AssignIds without the hasAttribute check of content.js:735: every result
\* of every scan is given the next identifier.
RECURSIVE AssignIdsEveryScan(_, _, _)
AssignIdsEveryScan(results, ids, counter) ==
    IF results = <<>> THEN [lightonId |-> ids, elementIdCounter |-> counter]
    ELSE AssignIdsEveryScan(Tail(results),
                            [ids EXCEPT ![Head(results).element] = Def(counter)],
                            counter + 1)

\* content.js:734-739: data-lighton-id = `lighton-${elementIdCounter++}` for
\* the results whose element has no such attribute yet.
RECURSIVE AssignIds(_, _, _)
AssignIds(results, ids, counter) ==
    IF results = <<>> THEN [lightonId |-> ids, elementIdCounter |-> counter]
    ELSE IF ids[Head(results).element].defined
    THEN AssignIds(Tail(results), ids, counter)
    ELSE AssignIds(Tail(results),
                   [ids EXCEPT ![Head(results).element] = Def(counter)],
                   counter + 1)

\* content.js:723-757: performScan after its check of isEnabled. D is what
\* Detector.scan left and returned; when scan threw, the handler ends there.
performScanFrom(D, S, origin) ==
    /\ S.nextActionId <= MaxActions + 1
    /\ processedElements' = D.processedElements
    /\ scanOut' = D.out
    /\ lastScan' = [origin |-> origin, previewing |-> isPreviewing]
    /\ IF D.out.threw
       THEN UNCHANGED <<currentResults, lightonId, elementIdCounter, executorVars>>
       ELSE /\ currentResults' = D.out.results
            /\ lightonId' =
                   AssignIds(D.out.results, lightonId, elementIdCounter).lightonId
            /\ elementIdCounter' =
                   AssignIds(D.out.results, lightonId, elementIdCounter).elementIdCounter
            /\ dom' = S.dom
            /\ appliedActions' = S.appliedActions
            /\ nextActionId' = S.nextActionId
            /\ before' = dom
            /\ last' = [NoCall EXCEPT !.op = "performScan", !.trace = S.trace]
            /\ UNCHANGED <<previewingActionId, reverted>>

\* content.js:721-758
performScan(origin) ==
    IF ~isEnabled
    THEN UNCHANGED <<executorVars, processedElements, scanOut, currentResults,
                     lightonId, elementIdCounter, lastScan>>
    ELSE performScanFrom(
             scan(dom, getAll(patterns), processedElements, "body"),
             autoApplyActions(
                 Cur, scan(dom, getAll(patterns), processedElements, "body").out.results),
             origin)

\* content.js:809-816
debouncedScan(origin) ==
    /\ nextTimer <= MaxTimers
    /\ timers' = {t \in timers : scanTimeout = NoTimer \/ t.id # scanTimeout}
                     \cup {[id |-> nextTimer, origin |-> origin]}
    /\ scanTimeout' = nextTimer
    /\ nextTimer' = nextTimer + 1

\* The catalogs the pattern files register before initialize runs.
Catalogs ==
    {<<PreselectedCheckbox, HiddenCancel>>,
     <<EmotionalManipulation, PreselectedCheckbox>>,
     <<AutoAddCartPreselected>>}

\* content.js:1007-1046: after initialize and its storage callback; the
\* initial scan is set with setTimeout(performScan, config.scanDelay) when
\* the extension is enabled.
Initialized ==
    /\ PageLoaded
    /\ BackgroundStarted
    /\ patterns \in Catalogs
    /\ processedElements = {}
    /\ scanOut = NoScan
    /\ isEnabled \in BOOLEAN
    /\ currentResults = <<>>
    /\ scanTimeout = NoTimer
    /\ timers = IF isEnabled THEN {[id |-> 1, origin |-> "initial"]} ELSE {}
    /\ nextTimer = IF isEnabled THEN 2 ELSE 1
    /\ elementIdCounter = 0
    /\ lightonId = [e \in Nodes |-> NoAttr]
    /\ lastScan = NoScanRun
    /\ calc = NoCalc

\* content.js:826-857: the observer's callback on a mutation that adds an
\* interactive element.
Mutation ==
    /\ isEnabled
    /\ ~isPreviewing
    /\ debouncedScan("mutation")
    /\ UNCHANGED <<executorVars, detectorVars, isEnabled, currentResults,
                   elementIdCounter, lightonId, lastScan, calc, backgroundVars>>

\* content.js:1039-1043: the page becomes visible.
VisibilityChange ==
    /\ isEnabled
    /\ debouncedScan("visibility")
    /\ UNCHANGED <<executorVars, detectorVars, isEnabled, currentResults,
                   elementIdCounter, lightonId, lastScan, calc, backgroundVars>>

\* A timer fires: its callback is performScan (content.js:813-815, 1020).
TimerFires ==
    \E t \in timers :
        /\ timers' = timers \ {t}
        /\ performScan(t.origin)
        /\ UNCHANGED <<patterns, isEnabled, scanTimeout, nextTimer, calc, backgroundVars>>

\* content.js:912-918: the message RESCAN.
Rescan ==
    /\ performScan("message")
    /\ UNCHANGED <<patterns, isEnabled, scanTimeout, timers, nextTimer, calc, backgroundVars>>

\* content.js:898-910: the message SET_ENABLED.
SetEnabled ==
    \E enabled \in BOOLEAN :
        /\ isEnabled' = enabled
        /\ IF enabled
           THEN performScanFrom(
                    scan(dom, getAll(patterns), processedElements, "body"),
                    autoApplyActions(
                        Cur, scan(dom, getAll(patterns), processedElements,
                                  "body").out.results),
                    "message")
           ELSE UNCHANGED <<executorVars, processedElements, scanOut,
                            currentResults, lightonId, elementIdCounter, lastScan>>
        /\ UNCHANGED <<patterns, scanTimeout, timers, nextTimer, calc, backgroundVars>>

NextContent ==
    \/ Mutation
    \/ VisibilityChange
    \/ TimerFires
    \/ Rescan
    \/ SetEnabled
    \/ PreviewOriginal
    \/ EndPreview

SpecContent == Initialized /\ [][NextContent]_vars

-----------------------------------------------------------------------------
(* calculateVisualProminence (detector.js:485-621) on its own: a child and  *)
(* its siblings are drawn and scored.  Ratios are compared by cross         *)
(* multiplication, saturations are in hundredths.                           *)

\* A box as the function reads it: offsetWidth, offsetHeight and the computed
\* backgroundColor (r, g, b), borderWidth, boxShadow, transform and zIndex;
\* its visible text and the classes of its descendants.
Box(width, bg, border) ==
    [offsetWidth |-> width, offsetHeight |-> 10, backgroundColor |-> bg,
     borderWidth |-> border, boxShadow |-> "none", transform |-> "none",
     zIndex |-> "auto", text |-> {"plan"}, descendants |-> {}]

Colors == {<<240, 240, 240>>, <<200, 200, 160>>, <<200, 100, 100>>}

\* The children scored.
Children ==
    {[Box(width, bg, border) EXCEPT !.boxShadow = shadow, !.transform = transform,
                                    !.zIndex = z, !.text = text,
                                    !.descendants = classes] :
        width \in {100, 115, 120}, bg \in Colors, border \in {0, 2, 3},
        shadow \in {"none", "0 4px 8px rgba(0, 0, 0, 0.2)"},
        transform \in {"none", "scale(1)", "scale(1.05)"},
        z \in {"auto", "2"}, text \in {{"plan"}, {"plan", "popular"}},
        classes \in {{}, {"badge"}}}

\* The siblings a child is compared with.
SiblingBoxes ==
    {Box(width, bg, border) :
        width \in {0, 100}, bg \in {<<240, 240, 240>>, <<200, 200, 160>>},
        border \in {0, 1}}

Max(a, b) == IF a > b THEN a ELSE b

Min(a, b) == IF a < b THEN a ELSE b

\* detector.js:493-494
Area(box) == box.offsetWidth * box.offsetHeight

RECURSIVE SumAreas(_)
SumAreas(siblings) ==
    IF siblings = <<>> THEN 0 ELSE Area(Head(siblings)) + SumAreas(Tail(siblings))

\* detector.js:495-500: sizeRatio > 1.15, where the ratio is 1 when there are
\* no siblings or their mean area is 0.
largerSize(element, siblings) ==
    /\ Len(siblings) > 0
    /\ SumAreas(siblings) > 0
    /\ Area(element) * Len(siblings) * 100 > 115 * SumAreas(siblings)

\* detector.js:507-508
hasBoxShadow(element) == element.boxShadow # "none"

\* detector.js:516-518: parseFloat of the argument of scale(), in hundredths;
\* 0 when the transform has no scale.
scaleValue(transform) ==
    CASE transform = "scale(1)" -> 100
      [] transform = "scale(1.05)" -> 105
      [] OTHER -> 0

\* detector.js:514-524
hasScale(element) ==
    /\ element.transform # "none"
    /\ scaleValue(element.transform) > 100

\* detector.js:531-534: (max - min) / max, in hundredths.
saturation(rgb) ==
    IF Max(rgb[1], Max(rgb[2], rgb[3])) = 0 THEN 0
    ELSE ((Max(rgb[1], Max(rgb[2], rgb[3])) - Min(rgb[1], Min(rgb[2], rgb[3]))) * 100)
             \div Max(rgb[1], Max(rgb[2], rgb[3]))

RECURSIVE SumSaturation(_)
SumSaturation(siblings) ==
    IF siblings = <<>> THEN 0
    ELSE saturation(Head(siblings).backgroundColor) + SumSaturation(Tail(siblings))

\* detector.js:537-559: saturation > avgSibSaturation + 0.2
higherSaturation(element, siblings) ==
    IF Len(siblings) > 0
    THEN saturation(element.backgroundColor) * Len(siblings)
             > SumSaturation(siblings) + 20 * Len(siblings)
    ELSE saturation(element.backgroundColor) > 20

RECURSIVE SumBorders(_)
SumBorders(siblings) ==
    IF siblings = <<>> THEN 0
    ELSE Head(siblings).borderWidth + SumBorders(Tail(siblings))

\* detector.js:563-575: borderWidth > avgSibBorder + 1
thickerBorder(element, siblings) ==
    IF Len(siblings) > 0
    THEN element.borderWidth * Len(siblings) > SumBorders(siblings) + Len(siblings)
    ELSE element.borderWidth > 1

\* detector.js:578-582: the words the badge patterns match.
badgePatterns == {"recommended", "best", "popular", "featured", "limited"}

\* detector.js:594-598: the classes the badge selectors match.
badgeSelectors ==
    {"badge", "ribbon", "tag", "label", "recommend", "featured", "popular", "best"}

\* detector.js:584-591
hasBadgeText(element) == element.text \cap badgePatterns # {}

\* detector.js:599-611
hasBadgeChild(element) == element.descendants \cap badgeSelectors # {}

\* detector.js:614: parseInt(style.zIndex) || 0
zIndex(element) ==
    CASE element.zIndex = "2" -> 2
      [] OTHER -> 0

Weight(signal, weight) == IF signal THEN weight ELSE 0

\* detector.js:485-621
calculateVisualProminence(element, siblings) ==
    [score |->
         Weight(largerSize(element, siblings), 1)
       + Weight(hasBoxShadow(element), 1)
       + Weight(hasScale(element), 1)
       + Weight(higherSaturation(element, siblings), 1)
       + Weight(thickerBorder(element, siblings), 1)
       + Weight(hasBadgeText(element), 2)
       + Weight(~hasBadgeText(element) /\ hasBadgeChild(element), 2)
       + Weight(zIndex(element) > 0, 1),
     hasBadge |-> hasBadgeText(element) \/ hasBadgeChild(element)]

\* The lists of at most MaxSiblings siblings.
SiblingLists == UNION {[1..n -> SiblingBoxes] : n \in 0..MaxSiblings}

\* A child and its siblings are laid out and not scored yet.
LaidOut ==
    /\ PageLoaded
    /\ BackgroundStarted
    /\ DetectorIdle
    /\ ContentIdle
    /\ \E element \in Children, siblings \in SiblingLists :
          calc = [op |-> "layout", in |-> <<element, siblings>>, out |-> <<>>]

\* detector.js:693: calculateVisualProminence(child, siblings)
Prominence ==
    /\ calc.op = "layout"
    /\ calc' = [op |-> "calculateVisualProminence",
                in |-> calc.in,
                out |-> calculateVisualProminence(calc.in[1], calc.in[2])]
    /\ UNCHANGED <<executorVars, detectorVars, contentVars, backgroundVars>>

NextProminence == Prominence

SpecProminence == LaidOut /\ [][NextProminence]_vars

-----------------------------------------------------------------------------
(* processVisualHierarchyDetector (detector.js:627-719) on one candidate    *)
(* container: its children are filtered, the context is tested and every    *)
(* child is scored against the others.                                      *)

\* A child of a container: its tag and its box.
Option(tag, box) == [tagName |-> tag, box |-> box]

Tier(width, text) == [Box(width, <<240, 240, 240>>, 0) EXCEPT !.text = text]

\* The children laid out in a container.
Options ==
    {Option("DIV", Tier(100, {"basic"})),
     Option("DIV", Tier(100, {"plan"})),
     Option("DIV", Tier(120, {"popular"})),
     Option("DIV", [Tier(100, {"basic"}) EXCEPT !.boxShadow = "0 4px 8px rgba(0, 0, 0, 0.2)"]),
     Option("DIV", [Tier(100, {"popular"}) EXCEPT !.boxShadow = "0 4px 8px rgba(0, 0, 0, 0.2)",
                                                  !.zIndex = "2"]),
     Option("SPAN", Tier(120, {"popular"}))}

\* A container: the words of its own text nodes and its element children.
Containers ==
    {[text |-> text, children |-> items] :
        text \in {{}, {"tier"}, {"month"}},
        items \in UNION {[1..n -> Options] : n \in 2..MaxChildren}}

\* A combined detector with visualChecks.compareWithSiblings
\* (interface.js:226-245); thresholds.prominenceScore is a number or absent.
HierarchyDetector(contextTextPatterns, skipContextCheck, prominenceScore) ==
    [type |-> "combined", compareWithSiblings |-> TRUE,
     contextTextPatterns |-> contextTextPatterns,
     skipContextCheck |-> skipContextCheck,
     prominenceScore |-> prominenceScore]

NoNumber == [defined |-> FALSE, value |-> 0]

HierarchyDetectors ==
    {HierarchyDetector(contextTextPatterns, skipContextCheck, prominenceScore) :
        contextTextPatterns \in {NoWords, Def({"plan", "tier", "month"})},
        skipContextCheck \in BOOLEAN,
        prominenceScore \in {NoNumber, Def(0), Def(2), Def(3)}}

\* detector.js:673-675: the children that are not script, style, br, span, a.
Qualifying(items) ==
    SelectSeq(items,
              LAMBDA c : c.tagName \notin {"SCRIPT", "STYLE", "BR", "SPAN", "A"})

\* detector.js:680: getVisibleText(container)
containerText(container) ==
    container.text
        \cup UNION {container.children[i].box.text : i \in DOMAIN container.children}

\* detector.js:685: the words the pricing test matches.
isPricingContext(text) ==
    text \cap {"usd", "year", "month", "price", "plan", "subscription", "option"} # {}

\* detector.js:692: children.filter(c => c !== child)
OtherChildren(items, i) ==
    [j \in 1..(Len(items) - 1) |->
        IF j < i THEN items[j].box ELSE items[j + 1].box]

\* detector.js:698: detector.thresholds?.prominenceScore || 3
threshold(detector) ==
    IF detector.prominenceScore.defined /\ detector.prominenceScore.value # 0
    THEN detector.prominenceScore.value
    ELSE 3

\* detector.js:689-715: the children are scored and those at or above the
\* threshold are pushed, in order.
RECURSIVE HierarchyMatches(_, _, _)
HierarchyMatches(detector, items, i) ==
    IF i > Len(items) THEN <<>>
    ELSE IF calculateVisualProminence(items[i].box, OtherChildren(items, i)).score
                >= threshold(detector)
         THEN <<[element |-> items[i],
                 prominenceScore |->
                     calculateVisualProminence(items[i].box,
                                               OtherChildren(items, i)).score]>>
                  \o HierarchyMatches(detector, items, i + 1)
         ELSE HierarchyMatches(detector, items, i + 1)

\* detector.js:672-716, the body of the loop for one container.
processVisualHierarchyDetector(detector, container) ==
    IF Len(Qualifying(container.children)) < 2 THEN <<>>
    ELSE IF /\ detector.contextTextPatterns.defined
            /\ ~matchesPatterns(containerText(container), detector.contextTextPatterns)
         THEN <<>>
    ELSE IF ~isPricingContext(containerText(container)) /\ ~detector.skipContextCheck
         THEN <<>>
    ELSE HierarchyMatches(detector, Qualifying(container.children), 1)

\* A detector and a container are given and not analysed yet.
ContainerFound ==
    /\ PageLoaded
    /\ BackgroundStarted
    /\ DetectorIdle
    /\ ContentIdle
    /\ \E detector \in HierarchyDetectors, container \in Containers :
          calc = [op |-> "container", in |-> <<detector, container>>, out |-> <<>>]

\* detector.js:876-878: processCombinedDetector hands the detector over.
VisualHierarchy ==
    /\ calc.op = "container"
    /\ calc' = [op |-> "processVisualHierarchyDetector",
                in |-> calc.in,
                out |-> processVisualHierarchyDetector(calc.in[1], calc.in[2])]
    /\ UNCHANGED <<executorVars, detectorVars, contentVars, backgroundVars>>

NextHierarchy == VisualHierarchy

SpecHierarchy == ContainerFound /\ [][NextHierarchy]_vars

-----------------------------------------------------------------------------
(* processAsymmetricButtonsDetector (detector.js:726-869) on one candidate  *)
(* container: its clickable descendants are filtered, measured and          *)
(* compared.                                                                *)

\* A clickable descendant as the function reads it: its computed display,
\* visibility, fontSize and backgroundColor (the numbers of the colour
\* string), its text content, the size of its box when it is laid out and
\* its inline min-width and min-height in px (0 when unset).
Control(text, width, fontSize, backgroundColor) ==
    [display |-> "inline-block", visibility |-> "visible", textContent |-> text,
     width |-> width, height |-> 40, fontSize |-> fontSize,
     backgroundColor |-> backgroundColor, minWidth |-> 0, minHeight |-> 0]

\* rgb(255, 255, 255), rgb(0, 102, 204) and rgba(0, 0, 0, 0)
ButtonColors == {<<255, 255, 255>>, <<0, 102, 204>>, <<0, 0, 0, 0>>}

Controls ==
    {Control("Accept", width, fontSize, backgroundColor) :
        width \in {100, 150, 160}, fontSize \in {10, 12, 13},
        backgroundColor \in ButtonColors}
    \cup {Control("", 100, 10, <<255, 255, 255>>),
          [Control("Later", 100, 10, <<255, 255, 255>>) EXCEPT !.display = "none"]}

\* A candidate container: its own computed display and its clickable
\* descendants in document order.
Modals ==
    {[element |-> "modal", display |-> display, clickables |-> clickables] :
        display \in {"block", "none"},
        clickables \in UNION {[1..n -> Controls] : n \in 2..MaxControls}}

\* detector.js:776-780 and implementations.js:297-299: isVisible && hasText
isVisibleWithText(el) ==
    /\ el.display # "none"
    /\ el.visibility # "hidden"
    /\ el.textContent # ""

\* detector.js:775-781: the visible controls with text.
Buttons(modal) == SelectSeq(modal.clickables, isVisibleWithText)

\* detector.js:788, 802: rect.width * rect.height; the box of a control
\* inside a container that is not displayed is 0 by 0.
area(modal, btn) ==
    IF modal.display = "none" THEN 0 ELSE btn.width * btn.height

\* detector.js:791-801, 809: bgSaturation > 0.1 || bgBrightness < 240, on the
\* first three numbers of the colour.
hasBackground(btn) ==
    \/ /\ Max(btn.backgroundColor[1], Max(btn.backgroundColor[2], btn.backgroundColor[3])) # 0
       /\ (Max(btn.backgroundColor[1], Max(btn.backgroundColor[2], btn.backgroundColor[3]))
            - Min(btn.backgroundColor[1], Min(btn.backgroundColor[2], btn.backgroundColor[3])))
              * 10
            > Max(btn.backgroundColor[1], Max(btn.backgroundColor[2], btn.backgroundColor[3]))
    \/ btn.backgroundColor[1] * 299 + btn.backgroundColor[2] * 587
         + btn.backgroundColor[3] * 114 < 240 * 1000

RECURSIVE MaxOf(_)
MaxOf(numbers) ==
    IF Len(numbers) = 1 THEN numbers[1]
    ELSE Max(Head(numbers), MaxOf(Tail(numbers)))

RECURSIVE MinOf(_)
MinOf(numbers) ==
    IF Len(numbers) = 1 THEN numbers[1]
    ELSE Min(Head(numbers), MinOf(Tail(numbers)))

\* detector.js:815
areas(modal, buttons) == [i \in 1..Len(buttons) |-> area(modal, buttons[i])]

\* detector.js:820
fontSizes(buttons) == [i \in 1..Len(buttons) |-> buttons[i].fontSize]

\* detector.js:816-818: areaRatio > 1.5, where the ratio is 10 when the
\* smallest area is 0.
areaRatioAbove(modal, buttons) ==
    IF MinOf(areas(modal, buttons)) > 0
    THEN MaxOf(areas(modal, buttons)) * 10 > 15 * MinOf(areas(modal, buttons))
    ELSE 10 * 10 > 15

\* detector.js:821-823: fontRatio > 1.2, where the ratio is 2 when the
\* smallest font size is 0.
fontRatioAbove(buttons) ==
    IF MinOf(fontSizes(buttons)) > 0
    THEN MaxOf(fontSizes(buttons)) * 10 > 12 * MinOf(fontSizes(buttons))
    ELSE 2 * 10 > 12

\* detector.js:826-828
hasBgAsymmetry(buttons) ==
    /\ \E i \in 1..Len(buttons) : hasBackground(buttons[i])
    /\ \E i \in 1..Len(buttons) : ~hasBackground(buttons[i])

\* detector.js:832
isAsymmetric(modal, buttons) ==
    \/ areaRatioAbove(modal, buttons)
    \/ fontRatioAbove(buttons)
    \/ hasBgAsymmetry(buttons)

\* detector.js:768-865, the body of the loop for one container.
processAsymmetricButtonsDetector(modal) ==
    IF Len(Buttons(modal)) < 2 THEN <<>>
    ELSE IF isAsymmetric(modal, Buttons(modal))
         THEN <<[element |-> modal.element, buttonCount |-> Len(Buttons(modal))]>>
         ELSE <<>>

\* A candidate container is found and not analysed yet.
ModalFound ==
    /\ PageLoaded
    /\ BackgroundStarted
    /\ DetectorIdle
    /\ ContentIdle
    /\ \E modal \in Modals : calc = [op |-> "modal", in |-> <<modal>>, out |-> <<>>]

\* detector.js:880-882: processCombinedDetector hands the detector over.
AsymmetricButtons ==
    /\ calc.op = "modal"
    /\ calc' = [op |-> "processAsymmetricButtonsDetector",
                in |-> calc.in,
                out |-> processAsymmetricButtonsDetector(calc.in[1])]
    /\ UNCHANGED <<executorVars, detectorVars, contentVars, backgroundVars>>

\* implementations.js:319-321: offsetWidth, offsetHeight and the computed
\* font size of each button.
sizes(modal, buttons) ==
    [i \in 1..Len(buttons) |->
        [width |-> IF modal.display = "none" THEN 0 ELSE buttons[i].width,
         height |-> IF modal.display = "none" THEN 0 ELSE buttons[i].height,
         fontSize |-> buttons[i].fontSize]]

\* implementations.js:326-373: the buttons, in order, are given the largest
\* width, height and font size and #6366F1 or #0D9488 as background.
RECURSIVE EqualizeEach(_, _, _, _)
EqualizeEach(modal, clickables, k, index) ==
    IF k > Len(clickables) THEN <<>>
    ELSE IF isVisibleWithText(clickables[k])
         THEN <<[clickables[k] EXCEPT
                   !.display = "inline-flex",
                   !.minWidth = MaxOf([i \in 1..Len(Buttons(modal)) |->
                                          sizes(modal, Buttons(modal))[i].width]),
                   !.minHeight = MaxOf([i \in 1..Len(Buttons(modal)) |->
                                           sizes(modal, Buttons(modal))[i].height]),
                   !.fontSize = MaxOf([i \in 1..Len(Buttons(modal)) |->
                                          sizes(modal, Buttons(modal))[i].fontSize]),
                   !.backgroundColor = IF index % 2 = 0 THEN <<99, 102, 241>>
                                       ELSE <<13, 148, 136>>]>>
                  \o EqualizeEach(modal, clickables, k + 1, index + 1)
         ELSE <<clickables[k]>> \o EqualizeEach(modal, clickables, k + 1, index)

\* implementations.js:283-418, called with the container itself.
equalizeButtons(modal) ==
    IF Len(Buttons(modal)) < 2 THEN [modal |-> modal, result |-> Null]
    ELSE [modal |-> [modal EXCEPT
                        !.clickables = EqualizeEach(modal, modal.clickables, 1, 0)],
          result |-> [type |-> "equalize", element |-> modal.element]]

\* executor.js:35-94 for a container the rule asymmetric-buttons reported:
\* the rule registers no action (sneaking.js:246-251), so only "hide" passes
\* the validation; the switch (executor.js:51-78) has no case that calls
\* equalizeButtons.
executeOnContainer(modal, actionType) ==
    IF ~includes(getAvailableActions("asymmetric-buttons"), actionType)
           /\ actionType # "hide"
    THEN [modal |-> modal, ret |-> Null]
    ELSE [modal |-> [modal EXCEPT !.display = "none"],
          ret |-> [type |-> "hide", element |-> modal.element]]

\* executeAction('asymmetric-buttons', container, actionType) on a reported
\* container.
ExecuteOnContainer ==
    /\ calc.op = "processAsymmetricButtonsDetector"
    /\ calc.out # <<>>
    /\ \E actionType \in {"equalize", "equalizeButtons", "hide"} :
          calc' = [op |-> "executeAction",
                   in |-> <<calc.in[1], actionType>>,
                   out |-> executeOnContainer(calc.in[1], actionType)]
    /\ UNCHANGED <<executorVars, detectorVars, contentVars, backgroundVars>>

NextAsymmetry == AsymmetricButtons \/ ExecuteOnContainer

SpecAsymmetry == ModalFound /\ [][NextAsymmetry]_vars

-----------------------------------------------------------------------------
(* background.js: the lookups of account-deletion information.  Time is in  *)
(* seconds.  A lookup is in waitForSlot with its timer running ("sleep") or *)
(* fired ("due"), or it has called fetch and awaits the response ("fetch"). *)
(* The cache is the Map in insertion order; an entry keeps its key and its  *)
(* timestamp.                                                               *)

\* background.js:24: maxRequests = 10
maxRequests == 10

\* background.js:24: windowMs = 10000
windowMs == 10

\* background.js:16
CACHE_TTL == 3600

\* background.js:17
MAX_CACHE_SIZE == 100

\* background.js:42: setTimeout(resolve, 1000)
SlotDelay == 1

\* background.js:32
Recent(reqs, t) == SelectSeq(reqs, LAMBDA time : t - time < windowMs)

\* background.js:30-34: the value canMakeRequest returns, after it has
\* replaced this.requests by Recent(reqs, t).
canMakeRequest(reqs, t) == Len(Recent(reqs, t)) < maxRequests

\* background.js:77-78: secessionCache.get(cacheKey), fresh.
CacheHit(cache, cacheKey, t) ==
    \E i \in 1..Len(cache) :
        /\ cache[i].key = cacheKey
        /\ t - cache[i].timestamp < CACHE_TTL

\* Map.prototype.set: the value of a key already present is replaced in
\* place, a new key is appended.
CacheSet(cache, cacheKey, t) ==
    IF \E i \in 1..Len(cache) : cache[i].key = cacheKey
    THEN [i \in 1..Len(cache) |->
             IF cache[i].key = cacheKey
             THEN [key |-> cacheKey, timestamp |-> t]
             ELSE cache[i]]
    ELSE Append(cache, [key |-> cacheKey, timestamp |-> t])

\* background.js:123-126
EvictOldest(cache) ==
    IF Len(cache) >= MAX_CACHE_SIZE THEN Tail(cache) ELSE cache

\* background.js:97-137: the cache after a response with the given status;
\* 200 stands for a response whose body has success and data.
CacheAfter(cache, cacheKey, status, t) ==
    CASE status = 404 -> CacheSet(cache, cacheKey, t)
      [] status = 429 -> cache
      [] status = 200 -> CacheSet(EvictOldest(cache), cacheKey, t)
      [] OTHER -> cache

RemoveAt(seq, i) == [j \in 1..(Len(seq) - 1) |-> IF j < i THEN seq[j] ELSE seq[j + 1]]

\* background.js:40-44 and 84-90: one pass of the loop of waitForSlot for
\* the lookup at position i; with a free slot the lookup goes on and calls
\* fetch, otherwise it sets its timer.
EnterSlot(i, pending) ==
    /\ requests' = Recent(requests, now)
    /\ IF canMakeRequest(requests, now)
       THEN /\ lookups' = [pending EXCEPT ![i].pc = "fetch"]
            /\ issued' = Append(issued, now)
       ELSE /\ lookups' = [pending EXCEPT ![i].pc = "sleep"]
            /\ UNCHANGED issued

\* background.js:73-90: fetchSecessionInfo(domain) is called.
StartLookup(domain) ==
    /\ started' = started + 1
    /\ IF CacheHit(secessionCache, domain, now)
       THEN UNCHANGED <<requests, lookups, issued>>
       ELSE EnterSlot(Len(lookups) + 1,
                      Append(lookups, [domain |-> domain, pc |-> "start"]))
    /\ UNCHANGED <<now, secessionCache>>
    /\ UNCHANGED <<executorVars, detectorVars, contentVars, calc>>

\* A second passes while lookups wait: their timers become due.
Tick ==
    /\ \E i \in 1..Len(lookups) : lookups[i].pc = "sleep"
    /\ \A i \in 1..Len(lookups) : lookups[i].pc # "due"
    /\ now' = now + SlotDelay
    /\ lookups' = [i \in 1..Len(lookups) |->
                      IF lookups[i].pc = "sleep"
                      THEN [lookups[i] EXCEPT !.pc = "due"]
                      ELSE lookups[i]]
    /\ UNCHANGED <<requests, secessionCache, issued, started>>
    /\ UNCHANGED <<executorVars, detectorVars, contentVars, calc>>

\* background.js:41-43: the timer of a waiting lookup fires.
Wake ==
    /\ \E i \in 1..Len(lookups) :
          /\ lookups[i].pc = "due"
          /\ EnterSlot(i, lookups)
    /\ UNCHANGED <<now, secessionCache, started>>
    /\ UNCHANGED <<executorVars, detectorVars, contentVars, calc>>

\* background.js:95-137: the response of a fetch arrives.
Response(statuses) ==
    /\ \E i \in 1..Len(lookups), status \in statuses :
          /\ lookups[i].pc = "fetch"
          /\ requests' = Append(requests, now)
          /\ secessionCache' =
                 CacheAfter(secessionCache, lookups[i].domain, status, now)
          /\ lookups' = RemoveAt(lookups, i)
    /\ UNCHANGED <<now, issued, started>>
    /\ UNCHANGED <<executorVars, detectorVars, contentVars, calc>>

\* background.js:90 and 139-146: fetch rejects; recordRequest is not reached.
FetchFails ==
    /\ \E i \in 1..Len(lookups) :
          /\ lookups[i].pc = "fetch"
          /\ lookups' = RemoveAt(lookups, i)
    /\ UNCHANGED <<now, requests, secessionCache, issued, started>>
    /\ UNCHANGED <<executorVars, detectorVars, contentVars, calc>>

\* background.js:195-215: the popup of a tab asks for the site it shows;
\* here every tab shows the same site.
LookupSite ==
    /\ started < MaxLookups
    /\ StartLookup(1)

ResponseAny == Response({200, 404, 429})

NextRateLimit ==
    \/ LookupSite
    \/ Tick
    \/ Wake
    \/ ResponseAny
    \/ FetchFails

SpecRateLimit == Init /\ [][NextRateLimit]_vars

\* Sites are visited one after the other, each for the first time, and each
\* lookup is answered before the next one starts.
LookupNext ==
    /\ started < MaxDomains
    /\ lookups = <<>>
    /\ StartLookup(started + 1)

ResponseStored == Response({200, 404})

NextCache ==
    \/ LookupNext
    \/ Tick
    \/ Wake
    \/ ResponseStored

SpecCache == Init /\ [][NextCache]_vars

-----------------------------------------------------------------------------
(* Properties of the detector                                              *)

\* The detections a scan returned, as (pattern id, node) pairs.
Detections(results) ==
    {<<results[i].patternId, results[i].element>> : i \in 1..Len(results)}

\* C11: two consecutive calls of scan on the same unchanged tree with the
\* same catalog return the same set of detections (same rule ids on the same
\* nodes).
C11_ScanTwiceStep ==
    (/\ scanOut.op = "scan"
     /\ scanOut'.op = "scan"
     /\ scanOut.catalog = patterns
     /\ patterns' = patterns
     /\ dom' = dom)
        => /\ scanOut'.threw = scanOut.threw
           /\ Detections(scanOut'.results) = Detections(scanOut.results)

C11_ScanDeterministic == [][C11_ScanTwiceStep]_vars

NodesOf(results, patternId) ==
    {results[i].element :
        i \in {j \in 1..Len(results) : results[j].patternId = patternId}}

\* The nodes of a set that contain no other node of the set.
Deepest(nodes) ==
    {e \in nodes : ~\E o \in nodes : o # e /\ contains(e, o)}

\* C28: for each rule the detections that survive deduplication are exactly
\* the deepest matched nodes, one detection per node; every raw match's node
\* equals or contains the node of a surviving detection of the same rule,
\* nothing is output that was not in the input, and the matches of one rule
\* never remove the matches of another rule.
C28_DedupKeepsDeepest ==
    calc.op = "deduplicateResults" =>
        /\ \A patternId \in RawPatternIds :
              NodesOf(calc.out, patternId) = Deepest(NodesOf(calc.in, patternId))
        /\ \A i, j \in 1..Len(calc.out) :
              (i # j /\ calc.out[i].patternId = calc.out[j].patternId)
                  => calc.out[i].element # calc.out[j].element
        /\ \A i \in 1..Len(calc.out) :
              \E j \in 1..Len(calc.in) : calc.in[j] = calc.out[i]
        /\ \A j \in 1..Len(calc.in) :
              \E i \in 1..Len(calc.out) :
                  /\ calc.out[i].patternId = calc.in[j].patternId
                  /\ contains(calc.in[j].element, calc.out[i].element)

\* One rule matched a node and a node below it, another rule matched the
\* upper node only: the upper node survives for the second rule alone.
C28_Witness ==
    /\ calc.op = "deduplicateResults"
    /\ Len(calc.in) = MaxRaw
    /\ Len(calc.out) = 2
    /\ \E i, j \in 1..Len(calc.out) :
          /\ calc.out[i].patternId # calc.out[j].patternId
          /\ calc.out[i].element # calc.out[j].element
          /\ contains(calc.out[i].element, calc.out[j].element)
          /\ calc.out[i].element \in NodesOf(calc.in, calc.out[j].patternId)

\* C13: the set of (rule id, node) detections deduplication returns depends
\* only on the set of raw matches: every permutation of the raw match list,
\* and every evaluation order of rules and detectors within one scan, gives
\* the same deduplicated set.
Permuted(seq, f) == [i \in 1..Len(seq) |-> seq[f[i]]]

Reversed(seq) == [i \in 1..Len(seq) |-> seq[Len(seq) + 1 - i]]

\* Every list of at most MaxRaw raw matches over two rules and four nodes.
RawLists ==
    UNION {[1..n -> [patternId : RawPatternIds, element : RawElements,
                     detector : {1}]] : n \in 0..MaxRaw}

\* The catalog with the order of the detectors of every pattern reversed.
DetectorsReversed(catalog) ==
    [i \in 1..Len(catalog) |->
        [catalog[i] EXCEPT !.detectors = Reversed(@)]]

ScanDetections(catalog) ==
    [threw |-> scan(dom, catalog, processedElements, "body").out.threw,
     found |-> Detections(scan(dom, catalog, processedElements, "body").out.results)]

C13_DedupOrderIndependent ==
    /\ \A f \in Permutations(1..Len(patterns)) :
          /\ ScanDetections(Permuted(patterns, f)) = ScanDetections(patterns)
          /\ ScanDetections(DetectorsReversed(Permuted(patterns, f)))
                = ScanDetections(patterns)
    /\ patterns = <<>> =>
          \A raw \in RawLists :
              \A f \in Permutations(1..Len(raw)) :
                  Detections(deduplicateResults(Permuted(raw, f)))
                      = Detections(deduplicateResults(raw))

\* A scan of a catalog of three patterns, one of them with two detectors, has
\* returned fewer detections than it found raw matches.
C13_Witness ==
    /\ scanOut.op = "scan"
    /\ ~scanOut.threw
    /\ Len(scanOut.catalog) = MaxPatterns
    /\ \E i \in 1..Len(scanOut.catalog) : Len(scanOut.catalog[i].detectors) > 1
    /\ Len(scanOut.results) > 1
    /\ Len(scanOut.results) < Len(scanOut.raw)

\* A detector that lacks its matching criterion.
LacksCriterion(detector) ==
    \/ detector.type = "selector" /\ ~detector.selectors.defined
    \/ detector.type = "text" /\ ~detector.patterns.defined

\* C24: after any sequence of register and registerAll calls the registry
\* holds no two rules with the same id, every registered rule has at least
\* one detector, and every text or selector detector of a registered rule
\* specifies at least one matching criterion.
C24_RegistryWellFormed ==
    /\ \A i, j \in 1..Len(patterns) :
          i # j => patterns[i].id # patterns[j].id
    /\ \A i \in 1..Len(patterns) :
          /\ Len(patterns[i].detectors) >= 1
          /\ \A k \in 1..Len(patterns[i].detectors) :
                ~LacksCriterion(patterns[i].detectors[k])

\* C14: a detector with an invalid selector, or one that lacks its matching
\* criterion, contributes no matches and never aborts the scan: scan returns
\* the detections of the remaining detectors and rules.
C14_MalformedDetectorSkipped ==
    scanOut.op = "scan" =>
        /\ ~scanOut.threw
        /\ \A i \in 1..Len(scanOut.raw) :
              \A p \in 1..Len(scanOut.catalog) :
                  scanOut.catalog[p].id = scanOut.raw[i].patternId =>
                      ~LacksCriterion(
                          scanOut.catalog[p].detectors[scanOut.raw[i].detector])

\* C18: within one scan the number of admitted candidates never exceeds
\* maxElementsPerScan; once the budget is hit no further element is admitted
\* or evaluated by any detector, and the scan returns detections found among
\* the admitted candidates.
C18_ElementBudget ==
    scanOut.op = "scan" =>
        /\ Len(scanOut.elementsToScan) <= maxElementsPerScan
        /\ scanOut.unreached \cap scanOut.evaluated = {}
        /\ \A i \in 1..Len(scanOut.results) :
              scanOut.results[i].element \notin scanOut.unreached

\* C19: no detection scan returns has a node that is, or lies inside, an
\* excluded subtree, whichever detector kind produced the match.
C19_ExcludedSubtrees ==
    scanOut.op = "scan" =>
        \A i \in 1..Len(scanOut.results) :
            ~\E n \in Nodes :
                /\ shouldSkip(dom, n)
                /\ contains(n, scanOut.results[i].element)

-----------------------------------------------------------------------------
(* Properties of the content script                                        *)

\* C15: at any time at most one scan is pending: a mutation observed while a
\* scan timer is pending resets that timer and queues no second scan.
C15_OneScanPending == Cardinality(timers) <= 1

\* C16: no scan started by a tree mutation executes while a preview is
\* active, that is between a successful previewOriginal and the endPreview
\* that resolves it.
C16_NoMutationScanInPreview ==
    lastScan.origin = "mutation" => ~lastScan.previewing

\* C29: a performScan of a page that has not changed since the previous
\* performScan adds no ActionRecord and mutates no node that the previous
\* pass remediated.
C29_RescanStep ==
    (/\ last.op = "performScan"
     /\ last'.op = "performScan"
     /\ lastScan'.origin # "none")
        => /\ Len(appliedActions') = Len(appliedActions)
           /\ \A i \in 1..Len(appliedActions) :
                 dom'[appliedActions[i].element] = dom[appliedActions[i].element]

C29_RescanAppliesNothing == [][C29_RescanStep]_vars

\* Every node of the current results carries an identifier, the identifiers
\* handed out are below the counter, and no two nodes carry the same one.
C17_IdsUnique ==
    /\ \A i \in 1..Len(currentResults) :
          lightonId[currentResults[i].element].defined
    /\ \A e \in Nodes :
          lightonId[e].defined => lightonId[e].value < elementIdCounter
    /\ \A e1, e2 \in Nodes :
          (e1 # e2 /\ lightonId[e1].defined /\ lightonId[e2].defined)
              => lightonId[e1].value # lightonId[e2].value

\* A node that has an identifier keeps it, and a node that is given one gets
\* a number above every identifier handed out before.
C17_IdsStep ==
    \A e \in Nodes :
        /\ lightonId[e].defined => lightonId'[e] = lightonId[e]
        /\ (~lightonId[e].defined /\ lightonId'[e].defined)
              => /\ lightonId'[e].value >= elementIdCounter
                 /\ \A o \in Nodes :
                       lightonId[o].defined
                           => lightonId[o].value < lightonId'[e].value

\* C17: each detected node receives an identifier on its first detection;
\* identifiers are handed out in strictly increasing order, no two distinct
\* nodes ever carry the same identifier, and a node keeps its identifier
\* across every later rescan.
C17_StableIds == []C17_IdsUnique /\ [][C17_IdsStep]_vars

\* The initial scan and a rescan after a mutation have both run, at least two
\* nodes carry identifiers and a node that has one is detected again.
C17_Witness ==
    /\ isEnabled
    /\ timers = {}
    /\ scanTimeout = 2
    /\ lastScan.origin = "mutation"
    /\ elementIdCounter >= 2
    /\ \E i \in 1..Len(currentResults) :
          /\ lightonId[currentResults[i].element].defined
          /\ lightonId[currentResults[i].element].value < elementIdCounter - 1

-----------------------------------------------------------------------------
(* Properties of the prominence score                                      *)

\* The rendered area of the child is at least 1.15 times the mean area of the
\* siblings.
AreaAtLeast115(element, siblings) ==
    /\ Len(siblings) > 0
    /\ Area(element) * Len(siblings) * 100 >= 115 * SumAreas(siblings)

\* C20: the prominence score of a child is the sum of the fixed weights of
\* the signals that hold for it: +1 for area at least 1.15 times the sibling
\* mean, +1 shadow, +1 scale above 1.0, +1 saturation more than 0.2 above the
\* sibling mean, +1 border more than 1 above the sibling mean, +2 badge
\* evidence counted once, +1 positive z-order; it lies between 0 and 8.
C20_ProminenceScore ==
    calc.op = "calculateVisualProminence" =>
        /\ calc.out.score \in 0..8
        /\ calc.out.score =
               Weight(AreaAtLeast115(calc.in[1], calc.in[2]), 1)
             + Weight(hasBoxShadow(calc.in[1]), 1)
             + Weight(hasScale(calc.in[1]), 1)
             + Weight(higherSaturation(calc.in[1], calc.in[2]), 1)
             + Weight(thickerBorder(calc.in[1], calc.in[2]), 1)
             + Weight(hasBadgeText(calc.in[1]) \/ hasBadgeChild(calc.in[1]), 2)
             + Weight(zIndex(calc.in[1]) > 0, 1)

-----------------------------------------------------------------------------
(* Properties of the sibling-prominence detector                           *)

\* The threshold the detector is configured with, 3 when it has none.
ConfiguredThreshold(detector) ==
    IF detector.prominenceScore.defined THEN detector.prominenceScore.value ELSE 3

\* The container passes the context test: its text matches the context text
\* patterns of the detector, when it has any, and the pricing vocabulary.
PassesContext(detector, container) ==
    /\ detector.contextTextPatterns.defined
           => matchesPatterns(containerText(container), detector.contextTextPatterns)
    /\ isPricingContext(containerText(container))

\* The qualifying children whose score is at least n.
ScoredAtLeast(items, n) ==
    {i \in 1..Len(items) :
        calculateVisualProminence(items[i].box, OtherChildren(items, i)).score >= n}

\* The qualifying children reported.
Reported(items, out) ==
    {i \in 1..Len(items) : \E k \in 1..Len(out) : out[k].element = items[i]}

\* C21: for a container with at least two qualifying children that passes
\* the context test, or whose detector skips the context check, the detector
\* reports exactly the children whose score is at least the threshold
\* (3 by default), each on its own; a child with score 0 is never reported.
C21_ReportsAtThreshold ==
    (/\ calc.op = "processVisualHierarchyDetector"
     /\ Len(Qualifying(calc.in[2].children)) >= 2
     /\ \/ PassesContext(calc.in[1], calc.in[2])
        \/ calc.in[1].skipContextCheck)
        => /\ Reported(Qualifying(calc.in[2].children), calc.out)
                = ScoredAtLeast(Qualifying(calc.in[2].children),
                                ConfiguredThreshold(calc.in[1]))
           /\ \A k \in 1..Len(calc.out) : calc.out[k].prominenceScore > 0

-----------------------------------------------------------------------------
(* Properties of the asymmetric-pair detector                              *)

\* max / min > ratio / 10 over a list of non-negative numbers.
RatioAbove(numbers, ratio) == MaxOf(numbers) * 10 > ratio * MinOf(numbers)

\* The controls have equal area, font size and background.
EqualControls(modal, buttons) ==
    \A i, j \in 1..Len(buttons) :
        /\ area(modal, buttons[i]) = area(modal, buttons[j])
        /\ buttons[i].fontSize = buttons[j].fontSize
        /\ buttons[i].backgroundColor = buttons[j].backgroundColor

\* C22: for a candidate container with at least two visible, non-empty
\* controls, the detector reports the container exactly when
\* max area / min area > 1.5, or max font size / min font size > 1.2, or
\* filled and unfilled controls are both present; the node reported is the
\* container, and a container whose controls have equal area, font size and
\* background is not reported.
C22_AsymmetryReported ==
    (/\ calc.op = "processAsymmetricButtonsDetector"
     /\ Len(Buttons(calc.in[1])) >= 2)
        => /\ (calc.out # <<>>)
                <=> \/ RatioAbove(areas(calc.in[1], Buttons(calc.in[1])), 15)
                    \/ RatioAbove(fontSizes(Buttons(calc.in[1])), 12)
                    \/ hasBgAsymmetry(Buttons(calc.in[1]))
           /\ \A k \in 1..Len(calc.out) : calc.out[k].element = calc.in[1].element
           /\ EqualControls(calc.in[1], Buttons(calc.in[1])) => calc.out = <<>>

\* The visible controls of a container have the same minimum width, the same
\* minimum height and the same font size, each with a filled background.
Equalized(modal) ==
    /\ \A i, j \in 1..Len(Buttons(modal)) :
          /\ Buttons(modal)[i].minWidth = Buttons(modal)[j].minWidth
          /\ Buttons(modal)[i].minHeight = Buttons(modal)[j].minHeight
          /\ Buttons(modal)[i].fontSize = Buttons(modal)[j].fontSize
    /\ \A i \in 1..Len(Buttons(modal)) :
          /\ Buttons(modal)[i].minWidth > 0
          /\ Buttons(modal)[i].minHeight > 0
          /\ hasBackground(Buttons(modal)[i])

\* C23: for a container the asymmetric-buttons rule reported, executing the
\* equalizing action through executeAction returns an ActionRecord and
\* leaves all visible controls of the container with the same minimum width,
\* the same minimum height and the same font size, each with a filled
\* background.
C23_EqualizeButtons ==
    (/\ calc.op = "executeAction"
     /\ calc.in[2] \in {"equalize", "equalizeButtons"})
        => /\ calc.out.ret # Null
           /\ Equalized(calc.out.modal)

-----------------------------------------------------------------------------
(* Properties of the background lookups                                    *)

\* The requests issued in the window of windowMs that starts at time t.
IssuedIn(t) == {j \in 1..Len(issued) : t <= issued[j] /\ issued[j] < t + windowMs}

\* The lookups that are in waitForSlot.
Waiting(pending) == {i \in 1..Len(pending) : pending[i].pc \in {"sleep", "due"}}

\* A lookup leaves waitForSlot only by calling fetch.
C25_WaitStep ==
    Cardinality(Waiting(lookups')) < Cardinality(Waiting(lookups))
        => /\ Len(issued') = Len(issued) + 1
           /\ Len(lookups') = Len(lookups)

\* C25: in any window of 10 seconds at most 10 requests are issued to the
\* remote API, also when several lookups run at once; a lookup that finds no
\* free slot waits until one becomes free.
C25_RateLimit ==
    /\ [](\A i \in 1..Len(issued) : Cardinality(IssuedIn(issued[i])) <= maxRequests)
    /\ [][C25_WaitStep]_vars

\* A result is stored under a new key while the cache is full.
StoredWhileFull ==
    /\ Len(secessionCache) >= MAX_CACHE_SIZE
    /\ secessionCache' # secessionCache

\* C26: after any sequence of lookups the cache holds at most 100 entries;
\* when a result is stored while the cache is full, the oldest entry is
\* evicted first, whatever the result is (found or not found).
C26_CacheBound ==
    /\ [](Len(secessionCache) <= MAX_CACHE_SIZE)
    /\ [][StoredWhileFull =>
            /\ Len(secessionCache') = Len(secessionCache)
            /\ \A i \in 1..(Len(secessionCache) - 1) :
                  secessionCache'[i] = secessionCache[i + 1]]_vars

-----------------------------------------------------------------------------
(* Properties of the executor                                              *)

Live(actionId) == MapHas(appliedActions, actionId)

\* The restore events of a call's trace
Restores(trace) == SelectSeq(trace, LAMBDA ev : ev.ev = "restore")

\* The record of actionId is in both tables, unchanged.
SameRecord(actionId) ==
    /\ MapHas(appliedActions', actionId)
    /\ MapGet(appliedActions', actionId) = MapGet(appliedActions, actionId)

\* C1: undoAction(actionId) returns true exactly when actionId names a live
\* record; it then invokes that record's revert once and removes that record
\* only (the count drops by one, every other record is unchanged).  For an
\* id that is not live it returns false, throws nothing and changes neither
\* the table nor any node.
C1_UndoStep ==
    last'.op = "undoAction" =>
        IF Live(last'.actionId)
        THEN /\ last'.ret = "true"
             /\ last'.trace = <<Event("restore", last'.actionId,
                                      MapGet(appliedActions, last'.actionId).element)>>
             /\ Len(appliedActions') = Len(appliedActions) - 1
             /\ MapKeys(appliedActions') = MapKeys(appliedActions) \ {last'.actionId}
             /\ \A other \in MapKeys(appliedActions) \ {last'.actionId} :
                    SameRecord(other)
        ELSE /\ last'.ret = "false"
             /\ ~last'.threw
             /\ last'.trace = <<>>
             /\ appliedActions' = appliedActions
             /\ dom' = dom

C1_UndoContract == [][C1_UndoStep]_vars

\* An undo of a live record has run and left another record in the table.
C1_Witness ==
    /\ last.op = "undoAction"
    /\ last.ret = "true"
    /\ Len(appliedActions) > 0

\* C2: for every action kind and starting node state, executing the action
\* and then invoking the record's revert leaves every inline style property,
\* checked state, class and attribute the execution wrote equal to its value
\* before the execution (what the execution did not write it left alone, so
\* the whole dom is as it was).
C2_UndoExactStep ==
    (/\ last.op = "executeAction"
     /\ last.ret # "null"
     /\ last'.op = "undoAction"
     /\ last'.actionId = last.ret)
        => dom' = before

C2_UndoExact == [][C2_UndoExactStep]_vars

\* C3: previewOriginal(actionId) in the Idle state for a live record invokes
\* the record's revert, keeps the record under the same id, moves to
\* Previewing(actionId) and returns true; for the id already being previewed
\* it invokes no revert and returns true; for an id with no live record it
\* returns false and does not end in a Previewing state.
C3_PreviewStep ==
    last'.op = "previewOriginal" =>
        /\ (previewingActionId = NoId /\ Live(last'.actionId)) =>
              /\ last'.ret = "true"
              /\ Restores(last'.trace) =
                    <<Event("restore", last'.actionId,
                            MapGet(appliedActions, last'.actionId).element)>>
              /\ MapHas(appliedActions', last'.actionId)
              /\ previewingActionId' = last'.actionId
        /\ previewingActionId = last'.actionId =>
              /\ last'.ret = "true"
              /\ Restores(last'.trace) = <<>>
        /\ ~Live(last'.actionId) =>
              /\ last'.ret = "false"
              /\ previewingActionId' = NoId

C3_PreviewContract == [][C3_PreviewStep]_vars

\* C4: at most one record is in the temporarily-reverted state at any time;
\* previewOriginal(B) while a different record A is being previewed first
\* re-applies A through endPreview and only then reverts B, so on return
\* only B is reverted and the state is Previewing(B).
C4_OnePreviewStep ==
    /\ Cardinality(reverted') <= 1
    /\ (/\ last'.op = "previewOriginal"
        /\ previewingActionId # NoId
        /\ previewingActionId # last'.actionId
        /\ Live(previewingActionId)
        /\ Live(last'.actionId)) =>
           /\ last'.trace =
                 <<Event("impl", MapGet(appliedActions, previewingActionId).actionType,
                         MapGet(appliedActions, previewingActionId).element),
                   Event("restore", last'.actionId,
                         MapGet(appliedActions, last'.actionId).element)>>
           /\ reverted' = {last'.actionId}
           /\ previewingActionId' = last'.actionId

C4_OnePreview == [][C4_OnePreviewStep]_vars

\* A preview of B has run while A was being previewed: A was re-applied, then
\* B reverted.
C4_Witness ==
    /\ last.op = "previewOriginal"
    /\ last.ret = "true"
    /\ Len(last.trace) = 2
    /\ last.trace[1].ev = "impl"
    /\ reverted = {last.actionId}

\* C5: endPreview() in the Idle state changes nothing; in Previewing(id) it
\* re-executes the same (ruleId, node, actionKind), stores the regenerated
\* record under the same actionId (the live ids and the count are unchanged)
\* and leaves the preview state Idle.
C5_EndPreviewStep ==
    last'.op = "endPreview" =>
        IF previewingActionId = NoId
        THEN /\ dom' = dom
             /\ appliedActions' = appliedActions
             /\ previewingActionId' = NoId
             /\ last'.trace = <<>>
        ELSE /\ Live(previewingActionId)
             /\ last'.trace =
                   <<Event("impl", MapGet(appliedActions, previewingActionId).actionType,
                           MapGet(appliedActions, previewingActionId).element)>>
             /\ MapKeys(appliedActions') = MapKeys(appliedActions)
             /\ Len(appliedActions') = Len(appliedActions)
             /\ MapGet(appliedActions', previewingActionId).patternId =
                   MapGet(appliedActions, previewingActionId).patternId
             /\ MapGet(appliedActions', previewingActionId).element =
                   MapGet(appliedActions, previewingActionId).element
             /\ MapGet(appliedActions', previewingActionId).actionType =
                   MapGet(appliedActions, previewingActionId).actionType
             /\ previewingActionId' = NoId

C5_EndPreviewContract == [][C5_EndPreviewStep]_vars

\* C6: previewOriginal(id) followed by endPreview() leaves the record's node
\* in the remediated state it had before the preview.
C6_RoundTripStep ==
    (/\ last.op = "previewOriginal"
     /\ last.ret = "true"
     /\ Len(last.trace) = 1
     /\ Live(last.actionId)
     /\ last'.op = "endPreview")
        => dom'[MapGet(appliedActions, last.actionId).element]
              = before[MapGet(appliedActions, last.actionId).element]

C6_RoundTrip == [][C6_RoundTripStep]_vars

\* The descendants an equalize record hid: the ones its two hiding passes
\* captured.
HiddenBy(action) ==
    {action.saved.badgeOriginalStyles[i].element :
        i \in 1..Len(action.saved.badgeOriginalStyles)}
    \cup {action.saved.absoluteOriginalStyles[i].element :
            i \in 1..Len(action.saved.absoluteOriginalStyles)}

\* C27: after equalize followed by revert, every descendant that equalize hid
\* has its inline display equal to its value before the execution, also a
\* descendant selected by both hiding passes.
C27_EqualizeRevertStep ==
    (/\ last.op = "executeAction"
     /\ last.ret # "null"
     /\ MapGet(appliedActions, last.ret).type = "equalize"
     /\ last'.op = "undoAction"
     /\ last'.actionId = last.ret)
        => \A c \in HiddenBy(MapGet(appliedActions, last.ret)) :
               dom'[c].style.display = before[c].style.display

C27_EqualizeRevertDisplay == [][C27_EqualizeRevertStep]_vars

\* C30: after executeAction followed by any number of previewOriginal(id) /
\* endPreview() round trips, undoAction(id) restores the node to the state it
\* had before the original executeAction.
C30_UndoAfterRoundTrips ==
    (calc.op = "undoAction" /\ calc.out = <<"endPreview">>)
        => dom[calc.in[2]] = calc.in[3][calc.in[2]]

\* C7: the preview slot is either Idle or names a live record, so
\* isPreviewing() is never true for a record that no longer exists.
C7_PreviewIsLive == isPreviewing => Live(previewingActionId)

\* C8: each node has at most one live record of a styling-type action.
StylingTypes == {"equalize", "neutralize", "emphasize", "enlarge", "hide"}

C8_OneRecordPerNode ==
    \A i, j \in 1..Len(appliedActions) :
        (/\ i # j
         /\ appliedActions[i].actionType \in StylingTypes
         /\ appliedActions[j].actionType \in StylingTypes)
            => appliedActions[i].element # appliedActions[j].element

\* C9: executeAction returns null, adds no record and mutates no node when
\* the node is missing, when actionKind is not registered for ruleId and is
\* not 'hide', or when actionKind is unknown; 'hide' is accepted for every
\* ruleId, also for rules that have no registered actions.
RulesAsked == DOMAIN actionConfig \cup {"not-in-registry"}

KindsAsked ==
    {"uncheck", "equalize", "neutralize", "equalizeButtons", "emphasize",
     "enlarge", "hide", "remove", ""}

KnownKinds ==
    {"uncheck", "equalize", "neutralize", "equalizeButtons", "emphasize",
     "enlarge", "hide"}

C9_ExecuteValidates ==
    /\ \A ruleId \in RulesAsked, node \in Elems \cup {NoElem}, kind \in KindsAsked :
          (\/ node = NoElem
           \/ (~includes(getAvailableActions(ruleId), kind) /\ kind # "hide")
           \/ kind \notin KnownKinds)
             => executeAction(Cur, ruleId, node, kind) = [S |-> Cur, ret |-> Null]
    /\ \A ruleId \in RulesAsked, node \in Elems :
          /\ executeAction(Cur, ruleId, node, "hide").ret # Null
          /\ Len(executeAction(Cur, ruleId, node, "hide").S.appliedActions)
                = Len(appliedActions) + 1

\* executeAction has turned a call down while the table holds a 'hide' record
\* it accepted for a rule with no registered actions.
C9_Witness ==
    /\ last.op = "executeAction"
    /\ last.ret = "null"
    /\ \E i \in 1..Len(appliedActions) :
          /\ appliedActions[i].actionType = "hide"
          /\ getAvailableActions(appliedActions[i].patternId) = <<>>

\* C10: clearAll() attempts the revert of every live record and ends with an
\* empty table, also when a revert throws.
C10_ClearAllStep ==
    last'.op = "clearAll" =>
        /\ Len(appliedActions') = 0
        /\ \A i \in 1..Len(appliedActions) :
              \E j \in 1..Len(last'.trace) :
                  last'.trace[j].id = appliedActions[i].actionId

C10_ClearAllTolerates == [][C10_ClearAllStep]_vars

====
